---- MODULE Spec2Model ----
(***************************************************************************)
(* Knowledge Hub: the embedding indexer (app/jobs.py), the text extractor  *)
(* and OCR variant selector, the chunker (app/ingestion.py) and the hybrid *)
(* retriever (app/api/routes.py), each as a state machine over the rows    *)
(* and values the code reads and writes.                                   *)
(***************************************************************************)
EXTENDS Integers, Sequences, FiniteSets, TLC

(***************************************************************************)
(* Bounds of the model.                                                    *)
(***************************************************************************)
MaxDocs == 2
MaxChunks == 4
MaxBatch == 2
MaxLines == 4
MaxPages == 2
MaxCand == 3
MaxLimit == 2

VARIABLES
    \* ---- relational store and the indexing run (jobs.py, routes.py) ----
    documents,      \* ids of the Document rows
    chunks,         \* Chunk rows: [id, document_id]
    embeddings,     \* Embedding rows: [id, chunk_id]
    cfg_batch,      \* app.config["EMBEDDINGS_BATCH_SIZE"]
    run,            \* the index_embeddings call in progress: position and locals
    prev,           \* the last call that returned, while no Segment was created since
    \* ---- the chunker (ingestion.py) ----
    page,           \* the page text given to _chunk_page_text: its lines
    cpc,            \* "ready" before the call, "done" after it
    chunked,        \* what the call yielded: (idx, chunk text, heading_path)
    \* ---- the OCR variant selector (ingestion.py, _ocr_best) ----
    o_answers,      \* what the OCR engine answered so far, in call order
    o_best,         \* best_text, best_conf
    opc,            \* "loop" inside the two loops, "done" after the return
    \* ---- the text extractor (ingestion.py, extract_pdf_pages_textfirst) ----
    pdf,            \* the pages of the file: embedded text and rendered image
    xpc,            \* "file" while the file is written, "pages" in the loop, "done"
    x_next,         \* the page the generator is at
    yielded,        \* what the generator yielded: (page_no, text, ocr_conf)
    renders,        \* the pages get_pixmap was called for
    preprocessed,   \* the pages _preprocess_variants was called for
    ocr_best_calls, \* the pages _ocr_best was called for
    \* ---- the hybrid retriever (api/routes.py) ----
    h_rows,         \* the stored segments as the two queries of a request see them
    hpc,            \* "store" while segments are ingested, "done" after the call
    h_req,          \* the arguments of the call
    h_scale,        \* the squares of 1/v_sd and 1/f_sd of the call
    h_items,        \* every candidate of the call after the sort
    h_out,          \* what the call returned
    \* ---- the answer endpoint (api/routes.py, llm.py) ----
    apc,            \* "idle" before the request, "llm" inside ollama_chat, "done"
    a_req,          \* the payload and what the two queries of the request saw
    a_pack,         \* the locals of the PACK loop when it ended
    a_prompt,       \* the context block of the prompt: one head per block
    a_llm,          \* the ollama_chat call in progress: invocation, attempt, retries
    a_posts,        \* the POSTs made on /api/chat, per ollama_chat invocation
    a_replies,      \* the replies ollama_chat returned, in order
    a_resp,         \* the response of the request
    \* ---- synchronous ingestion (ingestion.py, process_document) ----
    g_doc,          \* the Document row, <<>> while there is none
    g_file,         \* the file at source_path, <<>> while there is none
    g_runs,         \* the process_document calls made
    g_result,       \* what the last call returned
    g_trace,        \* what the calls did: files opened, OCR runs, Chunk rows,
                    \* index_embeddings calls
    g_segments,     \* the Chunk rows of the document: page_no, ocr_conf, tokens
    \* ---- index_embeddings calls that overlap in time (jobs.py) ----
    racers,         \* the two requests: position and locals of their calls
    serial,         \* the sequences of the primary keys of documents and chunks
    s_req,          \* POST /search/hybrid: the payload and how the database answers
    s_resp          \* POST /search/hybrid: status and result list

ivars == <<documents, chunks, embeddings, cfg_batch, run, prev>>
cvars == <<page, cpc, chunked>>
ovars == <<o_answers, o_best, opc>>
xvars == <<pdf, xpc, x_next, yielded, renders, preprocessed, ocr_best_calls>>

hvars == <<h_rows, hpc, h_req, h_scale, h_items, h_out>>
avars == <<apc, a_req, a_pack, a_prompt, a_llm, a_posts, a_replies, a_resp>>
gvars == <<g_doc, g_file, g_runs, g_result, g_trace, g_segments>>
rvars == <<racers>>
svars == <<serial>>
qvars == <<s_req, s_resp>>

notIndex == <<cvars, ovars, xvars, hvars, avars, gvars, rvars, svars, qvars>>
notChunk == <<ivars, ovars, xvars, hvars, avars, gvars, rvars, svars, qvars>>
notOcr == <<ivars, cvars, xvars, hvars, avars, gvars, rvars, svars, qvars>>
notExtract == <<ivars, cvars, ovars, hvars, avars, gvars, rvars, svars, qvars>>
notHybrid == <<ivars, cvars, ovars, xvars, avars, gvars, rvars, svars, qvars>>
notAnswer == <<ivars, cvars, ovars, xvars, hvars, gvars, rvars, svars, qvars>>
notIngest == <<ivars, cvars, ovars, xvars, hvars, avars, rvars, svars, qvars>>

notRace == <<cfg_batch, run, prev, cvars, ovars, xvars, hvars, avars, gvars, svars, qvars>>

vars == <<ivars, cvars, ovars, xvars, hvars, avars, gvars, rvars, svars, qvars>>

----------------------------------------------------------------------------
(***************************************************************************)
(* Helpers on finite sets of integers.                                     *)
(***************************************************************************)
Min(a, b) == IF a <= b THEN a ELSE b
Max(a, b) == IF a >= b THEN a ELSE b

SetMin(S) == CHOOSE x \in S : \A y \in S : x <= y

RECURSIVE Ascending(_)
\* ORDER BY ... ASC of a set of ids
Ascending(S) == IF S = {} THEN <<>>
                ELSE <<SetMin(S)>> \o Ascending(S \ {SetMin(S)})

Range(s) == {s[i] : i \in DOMAIN s}

NextId(rows) == IF rows = {} THEN 1 ELSE 1 + CHOOSE m \in {r.id : r \in rows} :
                                              \A r \in rows : r.id <= m

----------------------------------------------------------------------------
(***************************************************************************)
(* jobs.py: iter_chunk_ids_texts and index_embeddings.                     *)
(***************************************************************************)
NoScope == 0          \* document_id None (or 0): "if document_id:" is false

InScope(scope) ==
    {c \in chunks : scope = NoScope \/ c.document_id = scope}

EmbeddedIds == {e.chunk_id : e \in embeddings}

\* a faulty variant of the query: the exclusion filter is left out
SelectedIdsNoExclusion(scope) == {c.id : c \in InScope(scope)}

\* q: chunks of the scope whose id is not among the embedding foreign keys
SelectedIds(scope) ==
    {c.id : c \in {x \in InScope(scope) : x.id \notin EmbeddedIds}}

\* q.limit(batch_size).offset(offset).all(), ordered by ascending id
FetchPage(scope, batch_size, offset) ==
    LET all == Ascending(SelectedIds(scope))
    IN  SubSeq(all, offset + 1, Min(offset + batch_size, Len(all)))

\* the segments of a scope that no Embedding row references
Unembedded(scope) ==
    {c.id : c \in {x \in InScope(scope) :
                      ~ \E e \in embeddings : e.chunk_id = x.id}}

IdleRun == [pc |-> "idle", scope |-> NoScope, batch_size |-> 1, offset |-> 0,
            batch |-> <<>>, total_chunks |-> 0, total_vectors |-> 0,
            embed_calls |-> 0, commits |-> 0, done |-> <<>>,
            start_emb |-> {}, start_missing |-> {}, repeat |-> FALSE]

\* entry of index_embeddings(document_id, batch_size)
Begin(scope, bs) ==
    [IdleRun EXCEPT !.pc = "fetch", !.scope = scope, !.batch_size = bs,
                    !.start_emb = embeddings,
                    !.start_missing = Unembedded(scope),
                    !.repeat = (prev.valid /\ prev.scope = scope)]

\* rows of one batch, one Embedding per chunk id, ids from the sequence
NewRows(ids) ==
    LET base == NextId(embeddings)
    IN  {[id |-> base + i - 1, chunk_id |-> ids[i]] : i \in DOMAIN ids}

\* POST /embeddings/reindex: index_embeddings(document_id, batch_size)
Reindex(scope, bs) ==
    /\ run.pc = "idle"
    /\ run' = Begin(scope, bs)
    /\ UNCHANGED <<documents, chunks, embeddings, cfg_batch, prev>>
    /\ UNCHANGED notIndex

\* POST /documents/upload: the Document row, then process_document: n Chunk
\* rows committed, then index_embeddings(document_id = d.id, batch_size = config)
Upload(n) ==
    /\ run.pc = "idle"
    /\ Cardinality(documents) < MaxDocs
    /\ Cardinality(chunks) + n <= MaxChunks
    /\ LET d == IF documents = {} THEN 1 ELSE 1 + CHOOSE m \in documents :
                                               \A x \in documents : x <= m
           base == NextId(chunks)
       IN  /\ documents' = documents \cup {d}
           /\ chunks' = chunks \cup
                  {[id |-> base + i - 1, document_id |-> d] : i \in 1..n}
           /\ prev' = IF n > 0 THEN [prev EXCEPT !.valid = FALSE] ELSE prev
           /\ run' = [IdleRun EXCEPT !.pc = "fetch", !.scope = d,
                          !.batch_size = cfg_batch,
                          !.start_emb = embeddings,
                          !.start_missing = {base + i - 1 : i \in 1..n},
                          !.repeat = (n = 0 /\ prev.valid /\ prev.scope = d)]
    /\ UNCHANGED <<embeddings, cfg_batch>>
    /\ UNCHANGED notIndex

\* one turn of the generator: the page at the current offset; an empty page
\* ends the loop and index_embeddings returns its counts
FetchBatch ==
    /\ run.pc = "fetch"
    /\ LET batch == FetchPage(run.scope, run.batch_size, run.offset)
       IN  IF batch = <<>>
           THEN /\ run' = [run EXCEPT !.pc = "returned"]
                /\ prev' = [scope |-> run.scope, valid |-> TRUE]
           ELSE /\ run' = [run EXCEPT !.pc = "embed", !.batch = batch]
                /\ UNCHANGED prev
    /\ UNCHANGED <<documents, chunks, embeddings, cfg_batch>>
    /\ UNCHANGED notIndex

\* embed_texts succeeds: the rows are saved and committed, the counts and the
\* generator's offset advance
EmbedOk ==
    /\ run.pc = "embed"
    /\ embeddings' = embeddings \cup NewRows(run.batch)
    /\ run' = [run EXCEPT !.pc = "fetch", !.batch = <<>>,
                   !.offset = @ + run.batch_size,
                   !.total_chunks = @ + Len(run.batch),
                   !.total_vectors = @ + Len(run.batch),
                   !.embed_calls = @ + 1, !.commits = @ + 1,
                   !.done = Append(@, run.batch)]
    /\ UNCHANGED <<documents, chunks, cfg_batch, prev>>
    /\ UNCHANGED notIndex

\* a faulty variant of the failure: the run's earlier batches are rolled back
EmbedFailRollback ==
    /\ run.pc = "embed"
    /\ embeddings' = run.start_emb
    /\ run' = [run EXCEPT !.pc = "failed", !.embed_calls = @ + 1]
    /\ prev' = [prev EXCEPT !.valid = FALSE]
    /\ UNCHANGED <<documents, chunks, cfg_batch>>
    /\ UNCHANGED notIndex

\* embed_texts raises: nothing of this batch is saved, the exception leaves
\* index_embeddings
EmbedFail ==
    /\ run.pc = "embed"
    /\ run' = [run EXCEPT !.pc = "failed", !.embed_calls = @ + 1]
    /\ prev' = [prev EXCEPT !.valid = FALSE]
    /\ UNCHANGED <<documents, chunks, embeddings, cfg_batch>>
    /\ UNCHANGED notIndex

\* the request is over
Finish ==
    /\ run.pc \in {"returned", "failed"}
    /\ run' = IdleRun
    /\ UNCHANGED <<documents, chunks, embeddings, cfg_batch, prev>>
    /\ UNCHANGED notIndex

\* the store of a fresh deployment, no request in progress
EmptyStore ==
    /\ documents = {}
    /\ chunks = {}
    /\ embeddings = {}
    /\ run = IdleRun
    /\ prev = [scope |-> NoScope, valid |-> FALSE]
    /\ serial = [documents |-> 0, chunks |-> 0]

\* no page is being chunked
NoChunking == page = <<>> /\ cpc = "off" /\ chunked = <<>>

\* _ocr_best is not running
NoOcr == o_answers = <<>> /\ o_best = [text |-> <<>>, conf |-> <<0, 1>>] /\ opc = "off"

\* no file is being read
NoExtraction ==
    /\ pdf = <<>> /\ xpc = "off" /\ x_next = 1 /\ yielded = <<>>
    /\ renders = {} /\ preprocessed = {} /\ ocr_best_calls = {}

\* no retrieval request is served
NoRetrieval ==
    /\ h_rows = <<>> /\ hpc = "off" /\ h_req = [limit |-> 0, doc_id |-> NoScope]
    /\ h_scale = [v |-> <<1, 1>>, f |-> <<1, 1>>, rv |-> 0, rf |-> 0] /\ h_items = <<>> /\ h_out = <<>>

\* no search request is served
NoSearch ==
    /\ s_req = [q |-> "", limit |-> 0, doc_id |-> NoScope, asc |-> TRUE,
                rv |-> 0, rf |-> 0]
    /\ s_resp = [status |-> 0, scale |-> <<>>, results |-> <<>>]

\* no answer request is served
NoAnswering ==
    /\ apc = "off"
    /\ a_req = [q |-> "", max_ctx_tokens |-> 0, top_items |-> <<>>, by_id |-> {}]
    /\ a_pack = [seen_pages |-> {}, used_chunk_ids |-> <<>>, cit_map |-> <<>>,
                 tokens_acc |-> 0, broke_at |-> 0]
    /\ a_prompt = <<>>
    /\ a_llm = [invocation |-> 0, attempt |-> 0, retries |-> 0]
    /\ a_posts = <<>>
    /\ a_replies = <<>>
    /\ a_resp = [status |-> 0, keys |-> {}, answer |-> <<>>, reply_no |-> 0,
                 citations |-> <<>>, used_chunks |-> <<>>, llm_ms |-> 0]

\* no document is ingested
NoIngestion ==
    /\ g_doc = <<>> /\ g_file = <<>> /\ g_runs = 0 /\ g_result = "off"
    /\ g_trace = [opened |-> 0, ocr |-> 0, segments |-> 0, indexed |-> 0]
    /\ g_segments = <<>>

\* a request that is not inside index_embeddings
IdleRacer == [pc |-> "idle", scope |-> NoScope, batch_size |-> 1, offset |-> 0,
              batch |-> <<>>]

\* no two requests are followed
NoRace == racers = [i \in 1..2 |-> IdleRacer]

InitIndex ==
    /\ EmptyStore
    /\ NoSearch
    /\ NoRace
    /\ NoIngestion
    /\ NoAnswering
    /\ cfg_batch \in 1..MaxBatch
    /\ NoChunking
    /\ NoOcr
    /\ NoExtraction
    /\ NoRetrieval

NextIndex ==
    \/ \E n \in 0..MaxChunks : Upload(n)
    \/ \E scope \in {NoScope} \cup documents, bs \in 1..MaxBatch : Reindex(scope, bs)
    \/ FetchBatch
    \/ EmbedOk
    \/ EmbedFail
    \/ Finish

SpecIndex == InitIndex /\ [][NextIndex]_vars

----------------------------------------------------------------------------
(***************************************************************************)
(* ingestion.py: _rough_tokens and _chunk_page_text.                       *)
(*                                                                         *)
(* A text is the sequence of its whitespace-separated words; a word is     *)
(* <<line, position, k>>, k the number of matches of \w+|\S in it ("Q1" is *)
(* one token, "growth." two).  Joining with " ", "\n" or "\n\n" is         *)
(* concatenation, str.split() the sequence itself, "" the empty sequence.  *)
(* A line is its words and what _is_heading answers for it.                *)
(***************************************************************************)
target_min == 300
target_max == 700
overlap == 50

CountK(ws, k) == Cardinality({i \in DOMAIN ws : ws[i][3] = k})

\* len(re.findall(r"\w+|\S", s)): the tokens of the words, no token spans a blank
RoughTokens(ws) == CountK(ws, 1) + 2 * CountK(ws, 2)

RECURSIVE Join(_)
\* sep.join(parts).strip() of non-blank parts
Join(parts) == IF parts = <<>> THEN <<>> ELSE Head(parts) \o Join(Tail(parts))

\* tail[-n:] for n > 0
LastWords(ws, n) == SubSeq(ws, Max(1, Len(ws) - n + 1), Len(ws))

RECURSIVE ParasFrom(_, _, _, _)
\* the loop over lines + [""]: blank lines close the paragraph in buf
ParasFrom(lines, i, buf, paras) ==
    IF i > Len(lines) + 1 THEN paras
    ELSE LET ln == IF i <= Len(lines) THEN lines[i].words ELSE <<>>
         IN  IF ln # <<>>
             THEN ParasFrom(lines, i + 1, Append(buf, ln), paras)
             ELSE IF buf # <<>>
                  THEN ParasFrom(lines, i + 1, <<>>, Append(paras, Join(buf)))
                  ELSE ParasFrom(lines, i + 1, buf, paras)

\* headings: the heading-like lines, in order
Headings(lines) ==
    LET idx == {i \in DOMAIN lines : lines[i].heading}
        RECURSIVE Pick(_)
        Pick(S) == IF S = {} THEN <<>>
                   ELSE <<lines[SetMin(S)].words>> \o Pick(S \ {SetMin(S)})
    IN  Pick(idx)

\* " > ".join(headings[-2:]) if headings else None: <<>> stands for None
HeadingPath(lines) == LastWords(Headings(lines), 2)

\* the flush: the chunk is closed and the next one starts with its last ov words
Flush(chunks_, cur, p, ov) ==
    LET closed == Join(cur)
    IN  IF ov > 0 /\ closed # <<>>
        THEN LET tail == LastWords(closed, ov)
             IN  [chunks |-> Append(chunks_, closed), cur |-> <<tail, p>>,
                  cur_tokens |-> RoughTokens(tail) + RoughTokens(p)]
        ELSE [chunks |-> Append(chunks_, closed), cur |-> <<p>>,
              cur_tokens |-> RoughTokens(p)]

RECURSIVE Pack(_, _, _, _, _, _, _, _)
\* the greedy loop over paras, then the last chunk
Pack(paras, i, chunks_, cur, cur_tokens, tmin, tmax, ov) ==
    IF i > Len(paras)
    THEN IF cur # <<>> THEN Append(chunks_, Join(cur)) ELSE chunks_
    ELSE LET p == paras[i]
             ptoks == RoughTokens(p)
         IN  IF cur_tokens + ptoks <= tmax
             THEN Pack(paras, i + 1, chunks_, Append(cur, p), cur_tokens + ptoks,
                       tmin, tmax, ov)
             ELSE IF cur_tokens >= tmin \/ cur = <<>>
                  THEN LET f == Flush(chunks_, cur, p, ov)
                       IN  Pack(paras, i + 1, f.chunks, f.cur, f.cur_tokens,
                                tmin, tmax, ov)
                  ELSE Pack(paras, i + 1, chunks_, Append(cur, p),
                            cur_tokens + ptoks, tmin, tmax, ov)

\* _chunk_page_text(page_no, text, target_min, target_max, overlap)
ChunkPageText(lines, tmin, tmax, ov) ==
    LET cs == Pack(ParasFrom(lines, 1, <<>>, <<>>), 1, <<>>, <<>>, 0, tmin, tmax, ov)
        hp == HeadingPath(lines)
    IN  [i \in DOMAIN cs |-> [idx |-> i - 1, text |-> cs[i], heading_path |-> hp]]

(***************************************************************************)
(* The page texts the chunker is run on: up to MaxLines lines, each blank, *)
(* a one-word heading, or a body line of n words of k tokens each.         *)
(***************************************************************************)
LineChoices ==
    {[n |-> 0, k |-> 1, heading |-> FALSE],
     [n |-> 1, k |-> 1, heading |-> TRUE],
     [n |-> target_min - 1, k |-> 1, heading |-> FALSE],
     [n |-> target_min - 1, k |-> 2, heading |-> FALSE],
     [n |-> target_max - target_min + 2, k |-> 1, heading |-> FALSE],
     [n |-> target_max + 1, k |-> 1, heading |-> FALSE]}

MakeLine(i, c) ==
    [words |-> [j \in 1..c.n |-> <<i, j, c.k>>], heading |-> c.heading]

\* the page text grows by one line (the text layer of the page being read)
AddLine(c) ==
    /\ cpc = "ready"
    /\ Len(page) < MaxLines
    /\ page' = Append(page, MakeLine(Len(page) + 1, c))
    /\ UNCHANGED <<cpc, chunked>>
    /\ UNCHANGED notChunk

\* process_document hands a page's text to _chunk_page_text with the defaults
ChunkPage ==
    /\ cpc = "ready"
    /\ chunked' = ChunkPageText(page, target_min, target_max, overlap)
    /\ cpc' = "done"
    /\ UNCHANGED page
    /\ UNCHANGED notChunk

InitChunk ==
    /\ EmptyStore
    /\ NoSearch
    /\ NoRace
    /\ NoIngestion
    /\ NoAnswering
    /\ cfg_batch = 1
    /\ NoOcr
    /\ NoExtraction
    /\ NoRetrieval
    /\ page = <<>>
    /\ cpc = "ready"
    /\ chunked = <<>>

NextChunk ==
    \/ \E c \in LineChoices : AddLine(c)
    \/ ChunkPage

SpecChunk == InitChunk /\ [][NextChunk]_vars

----------------------------------------------------------------------------
(***************************************************************************)
(* ingestion.py: _ocr_best.                                                *)
(*                                                                         *)
(* pytesseract.image_to_data answers with parallel "text" and "conf"       *)
(* lists: a token is [t, c], c the confidence as the engine writes it.     *)
(* An average confidence is the fraction <<sum, count>>.                   *)
(***************************************************************************)
NumConfigs == 3       \* len(_TESS_CONFIGS)
NumVariants == 3      \* len(_preprocess_variants(image))

\* float(c); a c outside the domain makes float() raise
FloatOf == ("-1" :> (0 - 1)) @@ ("0" :> 0) @@ ("30" :> 30) @@ ("40" :> 40)
           @@ ("90" :> 90) @@ ("95" :> 95)

\* t and t.strip(): the token has text other than blanks
HasText(t) == t \notin {"", " "}

\* what the engine may answer for one (variant, configuration) pair
EngineAnswers ==
    [blank |-> <<[t |-> "", c |-> "-1"], [t |-> " ", c |-> "95"]>>,
     a40   |-> <<[t |-> "a", c |-> "40"]>>,
     b40   |-> <<[t |-> "x", c |-> "-1"], [t |-> "b", c |-> "40"]>>,
     c60   |-> <<[t |-> "c", c |-> "90"], [t |-> "d", c |-> "n/a"],
                 [t |-> "e", c |-> "30"]>>,
     z0    |-> <<[t |-> "z", c |-> "0"]>>]

AnswerIds == DOMAIN EngineAnswers

RECURSIVE Pieces(_)
\* pieces: the texts of the tokens that pass the filter
Pieces(tokens) ==
    IF tokens = <<>> THEN <<>>
    ELSE LET k == Head(tokens)
         IN  (IF HasText(k.t) /\ k.c # "-1" THEN <<k.t>> ELSE <<>>)
             \o Pieces(Tail(tokens))

RECURSIVE Scores(_)
\* scores: float(c) of the same tokens, where float(c) does not raise
Scores(tokens) ==
    IF tokens = <<>> THEN <<>>
    ELSE LET k == Head(tokens)
         IN  (IF HasText(k.t) /\ k.c # "-1" /\ k.c \in DOMAIN FloatOf
              THEN <<FloatOf[k.c]>> ELSE <<>>)
             \o Scores(Tail(tokens))

RECURSIVE SumSeq(_)
SumSeq(q) == IF q = <<>> THEN 0 ELSE Head(q) + SumSeq(Tail(q))

\* a/b > c/d for b, d > 0
FracGt(x, y) == x[1] * y[2] > y[1] * x[2]
FracEq(x, y) == x[1] * y[2] = y[1] * x[2]

\* text and conf of one pair: " ".join(pieces).strip(), sum(scores)/len(scores)
PairResult(tokens) ==
    LET sc == Scores(tokens)
    IN  [text |-> Pieces(tokens),
         conf |-> IF sc # <<>> THEN <<SumSeq(sc), Len(sc)>> ELSE <<0, 1>>]

\* the loop body: the pair replaces the best when its confidence is higher
\* and its text is not empty
OcrStep(best, tokens) ==
    LET r == PairResult(tokens)
    IN  IF FracGt(r.conf, best.conf) /\ r.text # <<>> THEN r ELSE best

RECURSIVE OcrFold(_, _)
OcrFold(best, answers) ==
    IF answers = <<>> THEN best
    ELSE OcrFold(OcrStep(best, EngineAnswers[Head(answers)]), Tail(answers))

\* _ocr_best(img_variants): grid holds the engine's answers, variant by
\* variant, configuration by configuration
OcrBest(grid) == OcrFold([text |-> <<>>, conf |-> <<0, 1>>], grid)

\* one image_to_data call of the two loops and the rest of the loop body
OcrCall(a) ==
    /\ opc = "loop"
    /\ Len(o_answers) < NumVariants * NumConfigs
    /\ o_answers' = Append(o_answers, a)
    /\ o_best' = OcrStep(o_best, EngineAnswers[a])
    /\ UNCHANGED opc
    /\ UNCHANGED notOcr

\* return best_text, best_conf
OcrReturn ==
    /\ opc = "loop"
    /\ Len(o_answers) = NumVariants * NumConfigs
    /\ opc' = "done"
    /\ UNCHANGED <<o_answers, o_best>>
    /\ UNCHANGED notOcr

InitOcr ==
    /\ EmptyStore
    /\ NoSearch
    /\ NoRace
    /\ NoIngestion
    /\ NoAnswering
    /\ cfg_batch = 1
    /\ NoChunking
    /\ NoExtraction
    /\ NoRetrieval
    /\ o_answers = <<>>
    /\ o_best = [text |-> <<>>, conf |-> <<0, 1>>]
    /\ opc = "loop"

NextOcr ==
    \/ \E a \in AnswerIds : OcrCall(a)
    \/ OcrReturn

SpecOcr == InitOcr /\ [][NextOcr]_vars

----------------------------------------------------------------------------
(***************************************************************************)
(* ingestion.py: _page_has_text and extract_pdf_pages_textfirst.           *)
(*                                                                         *)
(* An embedded text is the sequence of its characters: "a" an ASCII        *)
(* letter, "ya" a letter outside ASCII (U+044F), "7" a digit, " " a blank. *)
(* The image of a page is what the OCR engine answers for its variants and *)
(* configurations.  ocr_conf None is <<>>.                                 *)
(***************************************************************************)
AsciiLetters == {"a"}
OtherLetters == {"ya"}
Blanks == {" "}

RECURSIVE LStrip(_)
LStrip(t) == IF t # <<>> /\ Head(t) \in Blanks THEN LStrip(Tail(t)) ELSE t

RECURSIVE RStrip(_)
RStrip(t) == IF t # <<>> /\ t[Len(t)] \in Blanks
             THEN RStrip(SubSeq(t, 1, Len(t) - 1)) ELSE t

\* str.strip()
Strip(t) == RStrip(LStrip(t))

\* _page_has_text: bool(txt) and bool(re.search(r"[A-Za-z]", txt))
PageHasText(pg) ==
    LET txt == Strip(pg.text)
    IN  txt # <<>> /\ \E i \in DOMAIN txt : txt[i] \in AsciiLetters

SampleTexts ==
    {<<>>, <<" ">>, <<"7">>, <<"a">>, <<"ya">>, <<" ", "7", " ">>,
     <<"7", " ", "a", " ">>, <<"ya", "7">>}

UniformGrid(a) == [i \in 1..(NumVariants * NumConfigs) |-> a]

SampleImages ==
    {UniformGrid("blank"), UniformGrid("z0"), UniformGrid("b40"),
     [UniformGrid("blank") EXCEPT ![2] = "a40", ![5] = "c60", ![6] = "b40"]}

\* what the generator yields for a page, without the page number
PageYield(pg) ==
    IF PageHasText(pg)
    THEN [text |-> pg.text, ocr_conf |-> <<>>]
    ELSE LET best == OcrBest(pg.image)
         IN  [text |-> best.text, ocr_conf |-> best.conf]

\* the uploaded file gets one more page
AddPdfPage(t, img) ==
    /\ xpc = "file"
    /\ Len(pdf) < MaxPages
    /\ pdf' = Append(pdf, [text |-> t, image |-> img])
    /\ UNCHANGED <<xpc, x_next, yielded, renders, preprocessed, ocr_best_calls>>
    /\ UNCHANGED notExtract

\* doc = fitz.open(pdf_path)
OpenPdf ==
    /\ xpc = "file"
    /\ xpc' = "pages"
    /\ UNCHANGED <<pdf, x_next, yielded, renders, preprocessed, ocr_best_calls>>
    /\ UNCHANGED notExtract

\* one turn of the generator: the page's embedded text, or its OCR
ExtractPage ==
    /\ xpc = "pages"
    /\ x_next <= Len(pdf)
    /\ LET i == x_next
           pg == pdf[i]
           y == PageYield(pg)
       IN  /\ yielded' = Append(yielded,
                  [page_no |-> i, text |-> y.text, ocr_conf |-> y.ocr_conf])
           /\ IF PageHasText(pg)
              THEN UNCHANGED <<renders, preprocessed, ocr_best_calls>>
              ELSE /\ renders' = renders \cup {i}
                   /\ preprocessed' = preprocessed \cup {i}
                   /\ ocr_best_calls' = ocr_best_calls \cup {i}
    /\ x_next' = x_next + 1
    /\ UNCHANGED <<pdf, xpc>>
    /\ UNCHANGED notExtract

\* the loop over the pages ends
ExhaustPdf ==
    /\ xpc = "pages"
    /\ x_next > Len(pdf)
    /\ xpc' = "done"
    /\ UNCHANGED <<pdf, x_next, yielded, renders, preprocessed, ocr_best_calls>>
    /\ UNCHANGED notExtract

InitExtract ==
    /\ EmptyStore
    /\ NoSearch
    /\ NoRace
    /\ NoIngestion
    /\ NoAnswering
    /\ cfg_batch = 1
    /\ NoChunking
    /\ NoOcr
    /\ NoRetrieval
    /\ pdf = <<>> /\ xpc = "file" /\ x_next = 1 /\ yielded = <<>>
    /\ renders = {} /\ preprocessed = {} /\ ocr_best_calls = {}

NextExtract ==
    \/ \E t \in SampleTexts, img \in SampleImages : AddPdfPage(t, img)
    \/ OpenPdf
    \/ ExtractPage
    \/ ExhaustPdf

SpecExtract == InitExtract /\ [][NextExtract]_vars

----------------------------------------------------------------------------
(***************************************************************************)
(* ingestion.py, process_document: the confidence stored with a segment.   *)
(***************************************************************************)
\* base_conf = conf if conf is not None else 100.0
BaseConf(conf) == IF conf # <<>> THEN conf ELSE <<100, 1>>

\* a page gets segments only when its text has a paragraph
HasSegments(pg) == PageYield(pg).text # <<>>

\* "ocr_conf": base_conf, for every segment of the page
StoredConf(pg) == BaseConf(PageYield(pg).ocr_conf)

\* pages of uploaded files: one with embedded text, three scans
TextPage == [text |-> <<"a">>, image |-> UniformGrid("blank")]
ScanLow == [text |-> <<>>, image |-> UniformGrid("b40")]
ScanMid == [text |-> <<"7">>,
            image |-> [UniformGrid("blank") EXCEPT ![2] = "a40", ![5] = "c60",
                                                   ![6] = "b40"]]
ScanZero == [text |-> <<>>, image |-> UniformGrid("z0")]

\* a born-digital page whose letters are not ASCII
ForeignPage == [text |-> <<"ya", "ya">>, image |-> UniformGrid("blank")]

----------------------------------------------------------------------------
(***************************************************************************)
(* api/routes.py: _hybrid_retrieve_for_answer.                             *)
(*                                                                         *)
(* A stored segment is seen through the two queries of one request: its    *)
(* document, its extra_json ocr_conf, the number of its Embedding rows,    *)
(* the cosine distance of its vector to the query (in tenths) and its      *)
(* ts_rank_cd (0: the segment does not match the tsquery).  Scores are     *)
(* kept exact: a z-score is an integer times the square root of a          *)
(* fraction that is the same for every candidate of the call.  Floating    *)
(* point shows in one place: the mean of three or more equal values can    *)
(* come out one rounding step above or below them, and then every value    *)
(* has the same deviation from it; which of the three it is depends on the *)
(* values and is an input of the call.                                     *)
(***************************************************************************)
One == 10             \* 1.0 in tenths

RECURSIVE GCD(_, _)
GCD(a, b) == IF b = 0 THEN a ELSE GCD(b, a % b)

Abs(x) == IF x < 0 THEN 0 - x ELSE x

\* COALESCE((c.extra_json->>'ocr_conf')::float, 100.0)
SqlConf(stored) == IF stored = <<>> THEN <<100, 1>> ELSE stored

\* float(it.get("ocr_conf") or 100.0)
ConfOf(oc) == IF oc[1] = 0 THEN <<100, 1>> ELSE oc

\* max(0.0, min(conf, 100.0))
Clamp(c) == <<Max(0, Min(c[1], 100 * c[2])), c[2]>>

\* mult = 0.85 + 0.15 * max(0.0, min(conf, 100.0)) / 100.0, in lowest terms
Mult(c) ==
    LET k == Clamp(c)
        num == 1700 * k[2] + 3 * k[1]
        den == 2000 * k[2]
        g == GCD(num, den)
    IN  <<num \div g, den \div g>>

\* a faulty variant of the flag: the threshold itself counts as low
LowConfidenceInclusive(c) == c[1] <= 60 * c[2]

\* conf < 60.0
LowConfidence(c) == c[1] < 60 * c[2]

\* the segments a query of the request ranges over: "if doc_id:"
Scoped(rows, doc_id) ==
    {i \in DOMAIN rows : doc_id = NoScope \/ rows[i].document_id = doc_id}

Repeat(x, n) == [j \in 1..n |-> x]

Take(s, k) == SubSeq(s, 1, Min(k, Len(s)))

\* the order SQL leaves open between equal keys: by ascending or descending id
TieOk(asc, i, j) == IF asc THEN i <= j ELSE i >= j

RECURSIVE SemOrder(_, _, _)
\* FROM embeddings e JOIN chunks c ... ORDER BY vdist ASC: one row per
\* Embedding row, as the segment id
SemOrder(rows, S, asc) ==
    IF S = {} THEN <<>>
    ELSE LET first == CHOOSE i \in S : \A j \in S :
                         \/ rows[i].dist < rows[j].dist
                         \/ rows[i].dist = rows[j].dist /\ TieOk(asc, i, j)
         IN  Repeat(first, rows[first].n_emb) \o SemOrder(rows, S \ {first}, asc)

RECURSIVE FtsOrder(_, _, _)
\* FROM chunks c ... WHERE tsvector @@ tsq ORDER BY frank DESC
FtsOrder(rows, S, asc) ==
    IF S = {} THEN <<>>
    ELSE LET first == CHOOSE i \in S : \A j \in S :
                         \/ rows[i].rank > rows[j].rank
                         \/ rows[i].rank = rows[j].rank /\ TieOk(asc, i, j)
         IN  <<first>> \o FtsOrder(rows, S \ {first}, asc)

\* k = max(limit * 3, 60)
FetchK(limit) == Max(limit * 3, 60)

SemRows(rows, limit, doc_id, asc) ==
    Take(SemOrder(rows, Scoped(rows, doc_id), asc), FetchK(limit))

FtsRows(rows, limit, doc_id, asc) ==
    Take(FtsOrder(rows, {i \in Scoped(rows, doc_id) : rows[i].rank > 0}, asc),
         FetchK(limit))

\* a faulty variant of the dict: one entry per row
KeysPerRow(ids) == ids

RECURSIVE Keys(_)
\* the keys of {r["chunk_id"]: r for r in rows}, in insertion order
Keys(ids) ==
    IF ids = <<>> THEN <<>>
    ELSE LET init == Keys(SubSeq(ids, 1, Len(ids) - 1))
             last == ids[Len(ids)]
         IN  IF last \in Range(init) THEN init ELSE Append(init, last)

RECURSIVE SumSq(_, _, _)
\* the sum of (n * x - s) ** 2 over vals
SumSq(vals, n, s) ==
    IF vals = <<>> THEN 0
    ELSE (n * Head(vals) - s) * (n * Head(vals) - s) + SumSq(Tail(vals), n, s)

\* the values whose mean can be rounded away from them: three or more, equal
AllEqual(vals) ==
    Len(vals) >= 3 /\ SumSq(vals, Len(vals), SumSeq(vals)) = 0

\* the sign of x - mu for such values: 0 when mu is exact
Roundings == {0 - 1, 0, 1}

\* zstats(values): mu = s / n, var = sq / (n * n * max(1, n - 1)); r is the
\* rounding of mu
ZStats(vals, round) ==
    [n |-> Len(vals), s |-> SumSeq(vals),
     sq |-> SumSq(vals, Len(vals), SumSeq(vals)),
     r |-> IF AllEqual(vals) THEN round ELSE 0]

\* a faulty variant of the normalisation: the mean is not subtracted
DevNoMean(st, x) == st.n * x

\* x - mu, as a multiple of 1/n, or of the rounding step when mu is rounded
Dev(st, x) == IF st.r # 0 THEN st.r ELSE st.n * x - st.s

\* the square of what Dev is multiplied with to give (x - mu) / (sd or 1.0):
\* max(1, n - 1) / sq; 1 / n ** 2 when sd is 0 and replaced by 1.0;
\* (n - 1) / n when n equal values are all one rounding step off mu
Scale2(st) ==
    IF st.n = 0 THEN <<1, 1>>
    ELSE IF st.r # 0 THEN <<st.n - 1, st.n>>
    ELSE IF st.sq = 0 THEN <<1, st.n * st.n>>
    ELSE <<Max(1, st.n - 1), st.sq>>

\* v_sims = [1.0 - float(r["vdist"]) for r in sem_rows]
VSims(rows, sem_rows) == [j \in DOMAIN sem_rows |-> One - rows[sem_rows[j]].dist]

\* f_scores = [float(r["frank"]) for r in fts_rows]
FScores(rows, fts_rows) == [j \in DOMAIN fts_rows |-> rows[fts_rows[j]].rank]

\* combined[cid]: vscore and fscore as Dev, 0.0 as 0
Candidate(c, rows, semk, ftsk, vst, fst) ==
    [chunk_id |-> c,
     document_id |-> rows[c].document_id,
     vscore |-> IF c \in semk THEN Dev(vst, One - rows[c].dist) ELSE 0,
     fscore |-> IF c \in ftsk THEN Dev(fst, rows[c].rank) ELSE 0,
     ocr_conf |-> SqlConf(rows[c].ocr_conf)]

\* list(combined.values()): the keys of sem, then the keys of fts that sem
\* does not have
Candidates(rows, semk, ftsk, vst, fst) ==
    LET NotSem(c) == c \notin Range(semk)
        order == semk \o SelectSeq(ftsk, NotSem)
    IN  [j \in DOMAIN order |->
            Candidate(order[j], rows, Range(semk), Range(ftsk), vst, fst)]

\* a faulty variant of the scoring: the lexical score never enters base
ScoredSemanticOnly(it) ==
    LET conf == ConfOf(it.ocr_conf)
        m == Mult(conf)
    IN  [chunk_id |-> it.chunk_id, document_id |-> it.document_id,
         vscore |-> it.vscore, fscore |-> it.fscore, ocr_conf |-> it.ocr_conf,
         mult |-> m,
         score |-> [v |-> 5 * it.vscore * m[1], f |-> 0, d |-> 5 * m[2]],
         low_confidence |-> LowConfidence(conf)]

\* the body of "for it in items": base * mult is
\* (score.v * sqrt(scale.v) + score.f * sqrt(scale.f)) / score.d
Scored(it) ==
    LET conf == ConfOf(it.ocr_conf)
        m == Mult(conf)
    IN  [chunk_id |-> it.chunk_id, document_id |-> it.document_id,
         vscore |-> it.vscore, fscore |-> it.fscore, ocr_conf |-> it.ocr_conf,
         mult |-> m,
         score |-> [v |-> 3 * it.vscore * m[1], f |-> 2 * it.fscore * m[1],
                    d |-> 5 * m[2]],
         low_confidence |-> LowConfidence(conf)]

RECURSIVE CmpFrac(_, _, _, _)
\* the sign of p/q - r/s for p, r >= 0 and q, s > 0
CmpFrac(p, q, r, s) ==
    IF p \div q # r \div s THEN (IF p \div q > r \div s THEN 1 ELSE 0 - 1)
    ELSE IF p % q = 0 /\ r % s = 0 THEN 0
    ELSE IF p % q = 0 THEN 0 - 1
    ELSE IF r % s = 0 THEN 1
    ELSE CmpFrac(s, r % s, q, p % q)

\* the sign of x * sqrt(a) + y * sqrt(b) for fractions a, b > 0
SurdSign(x, y, a, b) ==
    IF x >= 0 /\ y >= 0 THEN (IF x = 0 /\ y = 0 THEN 0 ELSE 1)
    ELSE IF x <= 0 /\ y <= 0 THEN 0 - 1
    ELSE LET g == GCD(Abs(x), Abs(y))
             p == Abs(x) \div g
             q == Abs(y) \div g
             c == CmpFrac(p * p, q * q, b[1] * a[2], a[1] * b[2])
         IN  IF c = 0 THEN 0
             ELSE IF (c > 0) = (x > 0) THEN 1 ELSE 0 - 1

\* the sign of s1 - s2 for two scores of one call
CmpScore(s1, s2, scale) ==
    LET l == (s1.d * s2.d) \div GCD(s1.d, s2.d)
    IN  SurdSign(s1.v * (l \div s1.d) - s2.v * (l \div s2.d),
                 s1.f * (l \div s1.d) - s2.f * (l \div s2.d),
                 scale.v, scale.f)

\* x goes behind the items whose score is not below its own
InsertByScore(init, x, scale) ==
    LET pos == Cardinality({i \in DOMAIN init :
                               CmpScore(init[i].score, x.score, scale) >= 0})
    IN  SubSeq(init, 1, pos) \o <<x>> \o SubSeq(init, pos + 1, Len(init))

RECURSIVE SortByScore(_, _)
\* items.sort(key=lambda x: x["score"], reverse=True): stable
SortByScore(items, scale) ==
    IF items = <<>> THEN <<>>
    ELSE InsertByScore(SortByScore(SubSeq(items, 1, Len(items) - 1), scale),
                       items[Len(items)], scale)

\* the "Blend" part: the candidates scored and sorted, with the two scales
BlendWith(rows, sem_rows, fts_rows, vst, fst) ==
    LET cands == Candidates(rows, Keys(sem_rows), Keys(fts_rows), vst, fst)
        scale == [v |-> Scale2(vst), f |-> Scale2(fst), rv |-> vst.r, rf |-> fst.r]
    IN  [scale |-> scale,
         items |-> SortByScore([j \in DOMAIN cands |-> Scored(cands[j])], scale)]

Blend(rows, sem_rows, fts_rows, rv, rf) ==
    BlendWith(rows, sem_rows, fts_rows,
              ZStats(VSims(rows, sem_rows), rv), ZStats(FScores(rows, fts_rows), rf))

\* items[:limit]
Slice(items, limit) ==
    IF limit >= 0 THEN Take(items, limit)
    ELSE Take(items, Max(0, Len(items) + limit))

\* the page a segment comes from and what the segment looks like to the
\* request: its document, Embedding rows, distance and rank
SampleSegments ==
    {[page |-> TextPage, document_id |-> 1, n_emb |-> 1, dist |-> 2, rank |-> 3],
     [page |-> ScanLow,  document_id |-> 1, n_emb |-> 1, dist |-> 2, rank |-> 3],
     [page |-> ScanMid,  document_id |-> 1, n_emb |-> 2, dist |-> 6, rank |-> 0],
     [page |-> ScanLow,  document_id |-> 2, n_emb |-> 0, dist |-> 6, rank |-> 1],
     [page |-> TextPage, document_id |-> 2, n_emb |-> 1, dist |-> 4, rank |-> 1],
     [page |-> ScanMid,  document_id |-> 2, n_emb |-> 1, dist |-> 6, rank |-> 2],
     [page |-> TextPage, document_id |-> 1, n_emb |-> 1, dist |-> 4, rank |-> 3],
     [page |-> ScanZero, document_id |-> 2, n_emb |-> 1, dist |-> 2, rank |-> 3]}

\* a segment of a page is ingested (and indexed n_emb times) before the request
StoreSegment(seg) ==
    /\ hpc = "store"
    /\ Len(h_rows) < MaxCand
    /\ HasSegments(seg.page)
    /\ h_rows' = Append(h_rows,
          [document_id |-> seg.document_id, ocr_conf |-> StoredConf(seg.page),
           n_emb |-> seg.n_emb, dist |-> seg.dist, rank |-> seg.rank])
    /\ UNCHANGED <<hpc, h_req, h_scale, h_items, h_out>>
    /\ UNCHANGED notHybrid

\* the call once the two queries have answered
Answer(limit, sem_rows, fts_rows, rv, rf) ==
    /\ rv = 0 \/ AllEqual(VSims(h_rows, sem_rows))
    /\ rf = 0 \/ AllEqual(FScores(h_rows, fts_rows))
    /\ \E res \in {Blend(h_rows, sem_rows, fts_rows, rv, rf)} :
          /\ h_scale' = res.scale
          /\ h_items' = res.items
          /\ h_out' = Slice(res.items, limit)

\* one call of _hybrid_retrieve_for_answer(q, limit, doc_id)
HybridRetrieve(limit, doc_id, asc, rv, rf) ==
    /\ hpc = "store"
    /\ Answer(limit, SemRows(h_rows, limit, doc_id, asc),
              FtsRows(h_rows, limit, doc_id, asc), rv, rf)
    /\ h_req' = [limit |-> limit, doc_id |-> doc_id]
    /\ hpc' = "done"
    /\ UNCHANGED h_rows
    /\ UNCHANGED notHybrid

InitHybrid ==
    /\ EmptyStore
    /\ NoSearch
    /\ NoRace
    /\ NoIngestion
    /\ NoAnswering
    /\ cfg_batch = 1
    /\ NoChunking
    /\ NoOcr
    /\ NoExtraction
    /\ h_rows = <<>> /\ hpc = "store" /\ h_req = [limit |-> 0, doc_id |-> NoScope]
    /\ h_scale = [v |-> <<1, 1>>, f |-> <<1, 1>>, rv |-> 0, rf |-> 0] /\ h_items = <<>> /\ h_out = <<>>

NextHybrid ==
    \/ \E seg \in SampleSegments : StoreSegment(seg)
    \/ \E limit \in (0 - 1)..MaxLimit, doc_id \in {NoScope} \cup (1..MaxDocs),
          asc \in BOOLEAN, rv \in Roundings, rf \in Roundings :
              HybridRetrieve(limit, doc_id, asc, rv, rf)

SpecHybrid == InitHybrid /\ [][NextHybrid]_vars

----------------------------------------------------------------------------
(***************************************************************************)
(* routes.py: search_hybrid, the endpoint whose retrieval the helper of    *)
(* the answer endpoint repeats.  After a search request the helper is      *)
(* called for the same query, limit and scope on the same store, the       *)
(* database ordering equal keys as it did for the search.                  *)
(***************************************************************************)
\* q = (payload.get("q") or "").strip(): "" is a missing or blank q
SampleQueries == {"", "q"}

\* k = max(limit * 3, 60)
ShFetchK(limit) == Max(limit * 3, 60)

\* sem_sql with its parameters
ShSemRows(rows, limit, doc_id, asc) ==
    Take(SemOrder(rows, Scoped(rows, doc_id), asc), ShFetchK(limit))

\* fts_sql with its parameters
ShFtsRows(rows, limit, doc_id, asc) ==
    Take(FtsOrder(rows, {i \in Scoped(rows, doc_id) : rows[i].rank > 0}, asc),
         ShFetchK(limit))

\* zstats(values) of search_hybrid
ShZStats(vals, round) ==
    [n |-> Len(vals), s |-> SumSeq(vals),
     sq |-> SumSq(vals, Len(vals), SumSeq(vals)),
     r |-> IF AllEqual(vals) THEN round ELSE 0]

\* "seed with semantic" and "merge FTS": the entry of combined for chunk c
ShCombined(c, rows, semk, ftsk, vst, fst) ==
    [chunk_id |-> c,
     document_id |-> rows[c].document_id,
     vscore |-> IF c \in semk THEN Dev(vst, One - rows[c].dist) ELSE 0,
     fscore |-> IF c \in ftsk THEN Dev(fst, rows[c].rank) ELSE 0,
     ocr_conf |-> IF rows[c].ocr_conf = <<>> THEN <<100, 1>> ELSE rows[c].ocr_conf]

\* a faulty variant of "final score": the multiplier is left out
ShScoredUnweighted(it) ==
    [chunk_id |-> it.chunk_id, document_id |-> it.document_id,
     score |-> [v |-> 3 * it.vscore, f |-> 2 * it.fscore, d |-> 5],
     low_confidence |-> it.ocr_conf[1] # 0 /\ it.ocr_conf[1] < 60 * it.ocr_conf[2]]

\* "final score": base = alpha * vscore + beta * fscore, conf, mult, score
\* and low_confidence of one item
ShScored(it) ==
    LET conf == IF it.ocr_conf[1] = 0 THEN <<100, 1>> ELSE it.ocr_conf
        mult == Mult(conf)
    IN  [chunk_id |-> it.chunk_id, document_id |-> it.document_id,
         score |-> [v |-> 3 * it.vscore * mult[1], f |-> 2 * it.fscore * mult[1],
                    d |-> 5 * mult[2]],
         low_confidence |-> conf[1] < 60 * conf[2]]

\* the body of search_hybrid after the check of q: the two queries, the
\* blend, the sort and items[:limit]
ShResults(rows, limit, sem_rows, fts_rows, rv, rf) ==
    LET vst == ShZStats([j \in DOMAIN sem_rows |-> One - rows[sem_rows[j]].dist], rv)
        fst == ShZStats([j \in DOMAIN fts_rows |-> rows[fts_rows[j]].rank], rf)
        semk == Keys(sem_rows)
        NotSem(c) == c \notin Range(semk)
        order == semk \o SelectSeq(Keys(fts_rows), NotSem)
        scale == [v |-> Scale2(vst), f |-> Scale2(fst), rv |-> vst.r, rf |-> fst.r]
        items == [j \in DOMAIN order |->
                    ShScored(ShCombined(order[j], rows, Range(semk),
                                        Range(fts_rows), vst, fst))]
        sorted == SortByScore(items, scale)
    IN  [status |-> 200, scale |-> scale,
         results |-> IF limit >= 0 THEN Take(sorted, limit)
                     ELSE Take(sorted, Max(0, Len(sorted) + limit))]

\* POST /search/hybrid with the payload q, limit, document_id; a request
\* without q ends before the database is asked
SearchHybrid(q, limit, doc_id, asc, rv, rf) ==
    /\ hpc = "store"
    /\ IF q = ""
       THEN /\ s_req' = [q |-> q, limit |-> limit, doc_id |-> doc_id,
                         asc |-> TRUE, rv |-> 0, rf |-> 0]
            /\ s_resp' = [status |-> 400, scale |-> <<>>, results |-> <<>>]
       ELSE /\ s_req' = [q |-> q, limit |-> limit, doc_id |-> doc_id,
                         asc |-> asc, rv |-> rv, rf |-> rf]
            /\ rv = 0 \/ AllEqual(VSims(h_rows, ShSemRows(h_rows, limit, doc_id, asc)))
            /\ rf = 0 \/ AllEqual(FScores(h_rows, ShFtsRows(h_rows, limit, doc_id, asc)))
            /\ s_resp' = ShResults(h_rows, limit,
                                   ShSemRows(h_rows, limit, doc_id, asc),
                                   ShFtsRows(h_rows, limit, doc_id, asc), rv, rf)
    /\ hpc' = "searched"
    /\ UNCHANGED <<h_rows, h_req, h_scale, h_items, h_out>>
    /\ UNCHANGED <<ivars, cvars, ovars, xvars, avars, gvars, rvars, svars>>

\* answer_api, its q not blank, calls _hybrid_retrieve_for_answer(q, k,
\* doc_id) with the query, limit and scope of the search request
RetrieveSame ==
    /\ hpc = "searched"
    /\ s_req.q # ""
    /\ Answer(s_req.limit, SemRows(h_rows, s_req.limit, s_req.doc_id, s_req.asc),
              FtsRows(h_rows, s_req.limit, s_req.doc_id, s_req.asc),
              s_req.rv, s_req.rf)
    /\ h_req' = [limit |-> s_req.limit, doc_id |-> s_req.doc_id]
    /\ hpc' = "done"
    /\ UNCHANGED h_rows
    /\ UNCHANGED <<ivars, cvars, ovars, xvars, avars, gvars, rvars, svars, qvars>>

InitSearch == InitHybrid

NextSearch ==
    \/ \E seg \in SampleSegments : StoreSegment(seg)
    \/ \E q \in SampleQueries, limit \in (0 - 1)..MaxLimit,
          doc_id \in {NoScope} \cup (1..MaxDocs),
          asc \in BOOLEAN, rv \in Roundings, rf \in Roundings :
              SearchHybrid(q, limit, doc_id, asc, rv, rf)
    \/ RetrieveSame

SpecSearch == InitSearch /\ [][NextSearch]_vars

----------------------------------------------------------------------------
(***************************************************************************)
(* The answer endpoint (api/routes.py, answer_api; llm.py).  A request is   *)
(* one action up to the first POST on the LLM endpoint, then one action per *)
(* POST: the endpoint fails or replies.  A reply is the sequence of the     *)
(* numbers of its [CIT-n] markers, in the order of the text.                *)
(***************************************************************************)
MaxTop == 3

\* the Chunk rows the request can retrieve, joined with their Document:
\* trimmed_tokens is _rough_tokens_local(_trim_preserve_sentence(text, 800)),
\* 0 for the blank chunk _chunk_page_text makes of an oversized first paragraph
SampleChunks ==
    <<[document_id |-> 1, page_no |-> 1, title |-> "A", trimmed_tokens |-> 2],
      [document_id |-> 1, page_no |-> 1, title |-> "A", trimmed_tokens |-> 1],
      [document_id |-> 2, page_no |-> 1, title |-> "B", trimmed_tokens |-> 0],
      [document_id |-> 2, page_no |-> 1, title |-> "B", trimmed_tokens |-> 3]>>

\* max_context_tokens of the payload: int(...) of any integer, none rejected
Budgets == {0 - 1, 0, 2, 3, 5}

\* the texts message.content can be, as far as their markers go: none, one,
\* two out of order, one twice, [CIT-0], one beyond every block
SampleReplies == {<<>>, <<1>>, <<2, 1>>, <<1, 1>>, <<0>>, <<3, 2>>}

\* what _hybrid_retrieve_for_answer can return: chunk ids, none twice
RECURSIVE TopLists(_)
TopLists(n) ==
    IF n = 0 THEN {<<>>}
    ELSE LET shorter == TopLists(n - 1)
         IN  shorter \cup
             UNION {{Append(t, c) : c \in DOMAIN SampleChunks \ Range(t)} :
                       t \in {u \in shorter : Len(u) = n - 1}}

\* the rows the second query finds: those of the ids whose document was
\* not deleted since the retrieval
ById(top_items, deleted) ==
    {c \in Range(top_items) : SampleChunks[c].document_id # deleted}

\* a faulty variant of the key: the chunk instead of its page
PageKeyByChunk(c) == <<SampleChunks[c].document_id, c>>

\* key = (r["document_id"], r["page_no"])
PageKey(c) == <<SampleChunks[c].document_id, SampleChunks[c].page_no>>

\* ctoks = _rough_tokens_local(text) of the trimmed text
Ctoks(c) == SampleChunks[c].trimmed_tokens

CitEntry(c) ==
    [chunk_id |-> c, document_id |-> SampleChunks[c].document_id,
     page_no |-> SampleChunks[c].page_no, title |-> SampleChunks[c].title]

\* a faulty variant of the loop: a candidate over the budget is skipped and
\* the loop goes on
RECURSIVE PackSkipping(_, _, _, _, _)
PackSkipping(top_items, by_id, max_ctx_tokens, i, st) ==
    IF i > Len(top_items) THEN st
    ELSE LET c == top_items[i]
             saw == [st EXCEPT !.seen_pages = @ \cup {PageKey(c)}]
         IN  IF c \notin by_id \/ PageKey(c) \in st.seen_pages
             THEN PackSkipping(top_items, by_id, max_ctx_tokens, i + 1, st)
             ELSE IF Ctoks(c) = 0 \/ st.tokens_acc + Ctoks(c) > max_ctx_tokens
             THEN PackSkipping(top_items, by_id, max_ctx_tokens, i + 1, saw)
             ELSE PackSkipping(top_items, by_id, max_ctx_tokens, i + 1,
                      [saw EXCEPT !.tokens_acc = @ + Ctoks(c),
                                  !.used_chunk_ids = Append(@, c),
                                  !.cit_map = Append(@, CitEntry(c))])

RECURSIVE PackContext(_, _, _, _, _)
\* "for it in top_items" from item i on, with the locals st; broke_at is the
\* position of the item the loop left at, 0 while it has not
PackContext(top_items, by_id, max_ctx_tokens, i, st) ==
    IF i > Len(top_items) THEN st
    ELSE LET c == top_items[i]
             saw == [st EXCEPT !.seen_pages = @ \cup {PageKey(c)}]
         IN  IF c \notin by_id \/ PageKey(c) \in st.seen_pages
             THEN PackContext(top_items, by_id, max_ctx_tokens, i + 1, st)
             ELSE IF Ctoks(c) = 0
             THEN PackContext(top_items, by_id, max_ctx_tokens, i + 1, saw)
             ELSE IF st.tokens_acc + Ctoks(c) > max_ctx_tokens
             THEN [saw EXCEPT !.broke_at = i]
             ELSE PackContext(top_items, by_id, max_ctx_tokens, i + 1,
                      [saw EXCEPT !.tokens_acc = @ + Ctoks(c),
                                  !.used_chunk_ids = Append(@, c),
                                  !.cit_map = Append(@, CitEntry(c))])

\* the locals before the loop
PackStart ==
    [seen_pages |-> {}, used_chunk_ids |-> <<>>, cit_map |-> <<>>,
     tokens_acc |-> 0, broke_at |-> 0]

\* the head lines of context_block: block i under [CIT-i]
ContextBlock(used_chunk_ids) ==
    [i \in DOMAIN used_chunk_ids |->
        [cit |-> i, title |-> SampleChunks[used_chunk_ids[i]].title,
         page_no |-> SampleChunks[used_chunk_ids[i]].page_no,
         text_of |-> used_chunk_ids[i]]]

RECURSIVE SortedSeq(_)
\* sorted(S) of a set of integers
SortedSeq(S) ==
    IF S = {} THEN <<>> ELSE <<SetMin(S)>> \o SortedSeq(S \ {SetMin(S)})

\* a faulty variant of the scan: every marker, in the order of the text
ExtractEveryMarker(text) == text

\* extract_citation_indices(text)
ExtractCitationIndices(text) == SortedSeq(Range(text))

RECURSIVE MapCitations(_, _)
\* the loop "for idx in cit_idxs"
MapCitations(cit_idxs, cit_map) ==
    IF cit_idxs = <<>> THEN <<>>
    ELSE LET idx == Head(cit_idxs)
             rest == MapCitations(Tail(cit_idxs), cit_map)
         IN  IF 1 <= idx /\ idx <= Len(cit_map)
             THEN <<[cit |-> idx,
                     document_id |-> cit_map[idx].document_id,
                     page_no |-> cit_map[idx].page_no,
                     title |-> cit_map[idx].title]>> \o rest
             ELSE rest

NoResponse ==
    [status |-> 0, keys |-> {}, answer |-> <<>>, reply_no |-> 0,
     citations |-> <<>>, used_chunks |-> <<>>, llm_ms |-> 0]

\* {"error": "q is required"}, 400
QRequired == [NoResponse EXCEPT !.status = 400, !.keys = {"error"}]

\* the fixed answer of an empty retrieval
Insufficient ==
    [NoResponse EXCEPT !.status = 200,
        !.keys = {"answer", "citations", "used_chunks", "timings"},
        !.answer = <<"Insufficient context">>]

\* {"error": "llm_unreachable", ...}, 502
LlmUnreachable ==
    [NoResponse EXCEPT !.status = 502,
        !.keys = {"error", "detail", "hint", "timings"}]

\* the response that carries a reply
Answered(text, reply_no, cit_idxs, pack, ms) ==
    [status |-> 200, keys |-> {"answer", "citations", "used_chunks", "timings"},
     answer |-> text, reply_no |-> reply_no,
     citations |-> MapCitations(cit_idxs, pack.cit_map),
     used_chunks |-> pack.used_chunk_ids, llm_ms |-> ms]

\* a faulty variant of the test: the request goes on with no item
NothingRetrievedIgnored(top_items) == FALSE

\* "if not top_items"
NothingRetrieved(top_items) == top_items = <<>>

\* answer_api up to the first POST of ollama_chat(system_msg, user_msg, cfg,
\* retries=2), or to its return when q is blank or nothing was retrieved
AnswerRequest(q, top_items, deleted, max_ctx_tokens) ==
    /\ apc = "idle"
    /\ a_req' = [q |-> q, max_ctx_tokens |-> max_ctx_tokens,
                 top_items |-> IF q = "" THEN <<>> ELSE top_items,
                 by_id |-> IF q = "" THEN {} ELSE ById(top_items, deleted)]
    /\ IF q = ""
       THEN /\ a_resp' = QRequired
            /\ apc' = "done"
            /\ UNCHANGED <<a_pack, a_prompt, a_llm, a_posts>>
       ELSE IF NothingRetrieved(top_items)
       THEN /\ a_resp' = Insufficient
            /\ apc' = "done"
            /\ UNCHANGED <<a_pack, a_prompt, a_llm, a_posts>>
       ELSE \E st \in {PackContext(top_items, ById(top_items, deleted),
                            max_ctx_tokens, 1, PackStart)} :
               /\ a_pack' = st
               /\ a_prompt' = ContextBlock(st.used_chunk_ids)
               /\ a_llm' = [invocation |-> 1, attempt |-> 0, retries |-> 2]
               /\ a_posts' = <<0>>
               /\ apc' = "llm"
               /\ UNCHANGED a_resp
    /\ UNCHANGED a_replies
    /\ UNCHANGED notAnswer

\* a faulty variant of the regeneration's failure: the first reply is
\* returned instead of the error
PostFailsFallsBack ==
    /\ apc = "llm"
    /\ a_posts' = [a_posts EXCEPT ![a_llm.invocation] = @ + 1]
    /\ IF a_llm.attempt < a_llm.retries
       THEN /\ a_llm' = [a_llm EXCEPT !.attempt = @ + 1]
            /\ UNCHANGED <<apc, a_resp>>
       ELSE /\ a_resp' = IF a_llm.invocation = 2
                         THEN Answered(a_replies[1], 1, <<>>, a_pack, 0)
                         ELSE LlmUnreachable
            /\ apc' = "done"
            /\ UNCHANGED a_llm
    /\ UNCHANGED <<a_req, a_pack, a_prompt, a_replies>>
    /\ UNCHANGED notAnswer

\* a faulty variant of the retry loop: one more attempt before it gives up
PostFailsOnceMore ==
    /\ apc = "llm"
    /\ a_posts' = [a_posts EXCEPT ![a_llm.invocation] = @ + 1]
    /\ IF a_llm.attempt <= a_llm.retries
       THEN /\ a_llm' = [a_llm EXCEPT !.attempt = @ + 1]
            /\ UNCHANGED <<apc, a_resp>>
       ELSE /\ a_resp' = LlmUnreachable
            /\ apc' = "done"
            /\ UNCHANGED a_llm
    /\ UNCHANGED <<a_req, a_pack, a_prompt, a_replies>>
    /\ UNCHANGED notAnswer

\* one POST of ollama_chat raises: the loop sleeps and goes on while
\* attempt < retries, else the exception reaches answer_api
PostFails ==
    /\ apc = "llm"
    /\ a_posts' = [a_posts EXCEPT ![a_llm.invocation] = @ + 1]
    /\ IF a_llm.attempt < a_llm.retries
       THEN /\ a_llm' = [a_llm EXCEPT !.attempt = @ + 1]
            /\ UNCHANGED <<apc, a_resp>>
       ELSE /\ a_resp' = LlmUnreachable
            /\ apc' = "done"
            /\ UNCHANGED a_llm
    /\ UNCHANGED <<a_req, a_pack, a_prompt, a_replies>>
    /\ UNCHANGED notAnswer

\* a faulty variant of the citation check: it asks again after every reply
\* without a marker
PostRepliesLooping(text, ms) ==
    /\ apc = "llm"
    /\ a_replies' = Append(a_replies, text)
    /\ IF Len(a_replies) < 2 /\ ExtractCitationIndices(text) = <<>>
       THEN /\ a_llm' = [invocation |-> a_llm.invocation + 1, attempt |-> 0,
                         retries |-> 1]
            /\ a_posts' = Append([a_posts EXCEPT ![a_llm.invocation] = @ + 1], 0)
            /\ UNCHANGED <<apc, a_resp>>
       ELSE /\ a_posts' = [a_posts EXCEPT ![a_llm.invocation] = @ + 1]
            /\ a_resp' = Answered(text, a_llm.invocation,
                                  ExtractCitationIndices(text), a_pack, ms)
            /\ apc' = "done"
            /\ UNCHANGED a_llm
    /\ UNCHANGED <<a_req, a_pack, a_prompt>>
    /\ UNCHANGED notAnswer

\* one POST of ollama_chat answers: ollama_chat returns the text; after the
\* first invocation a text without marker starts ollama_chat(system_msg,
\* stricter, cfg, retries=1), any other text ends the request
PostReplies(text, ms) ==
    /\ apc = "llm"
    /\ a_replies' = Append(a_replies, text)
    /\ IF a_llm.invocation = 1 /\ ExtractCitationIndices(text) = <<>>
       THEN /\ a_llm' = [invocation |-> 2, attempt |-> 0, retries |-> 1]
            /\ a_posts' = Append([a_posts EXCEPT ![a_llm.invocation] = @ + 1], 0)
            /\ UNCHANGED <<apc, a_resp>>
       ELSE /\ a_posts' = [a_posts EXCEPT ![a_llm.invocation] = @ + 1]
            /\ a_resp' = Answered(text, a_llm.invocation,
                                  ExtractCitationIndices(text), a_pack, ms)
            /\ apc' = "done"
            /\ UNCHANGED a_llm
    /\ UNCHANGED <<a_req, a_pack, a_prompt>>
    /\ UNCHANGED notAnswer

InitAnswer ==
    /\ EmptyStore
    /\ NoSearch
    /\ NoRace
    /\ NoIngestion
    /\ cfg_batch = 1
    /\ NoChunking
    /\ NoOcr
    /\ NoExtraction
    /\ NoRetrieval
    /\ apc = "idle"
    /\ a_req = [q |-> "", max_ctx_tokens |-> 0, top_items |-> <<>>, by_id |-> {}]
    /\ a_pack = PackStart
    /\ a_prompt = <<>>
    /\ a_llm = [invocation |-> 0, attempt |-> 0, retries |-> 0]
    /\ a_posts = <<>>
    /\ a_replies = <<>>
    /\ a_resp = NoResponse

NextAnswer ==
    \/ \E q \in {"", "q"}, top_items \in TopLists(MaxTop),
          deleted \in {NoScope} \cup (1..MaxDocs),
          max_ctx_tokens \in Budgets :
            AnswerRequest(q, top_items, deleted, max_ctx_tokens)
    \/ PostFails
    \/ \E text \in SampleReplies, ms \in 0..1 : PostReplies(text, ms)

SpecAnswer == InitAnswer /\ [][NextAnswer]_vars

----------------------------------------------------------------------------
(***************************************************************************)
(* Synchronous ingestion (ingestion.py, process_document), for one         *)
(* document.  upload_document saves the file, commits the row and calls    *)
(* process_document; the file can be gone by the time of the call, and the *)
(* function can be called again for a document that was ingested.          *)
(***************************************************************************)
MaxRuns == 2

\* the pages a PDF can have
SamplePdfPages == {TextPage, ScanLow, ScanMid, ScanZero, ForeignPage}

RECURSIVE PdfFiles(_)
PdfFiles(n) ==
    IF n = 0 THEN {<<>>}
    ELSE PdfFiles(n - 1) \cup
         {Append(f, pg) : f \in {u \in PdfFiles(n - 1) : Len(u) = n - 1},
                          pg \in SamplePdfPages}

\* the files an upload can save: PDFs, an image cv2 cannot decode, two
\* scans, a text file
SampleFiles ==
    {[mime_type |-> "application/pdf", pages |-> f] : f \in PdfFiles(MaxPages)}
    \cup {[mime_type |-> "image/png", pages |-> f] :
             f \in {<<>>, <<ScanLow>>, <<ScanZero>>}}
    \cup {[mime_type |-> "text/plain", pages |-> <<>>]}

\* what is read from the path: nothing when no file is there
PagesOf(file) == IF file = <<>> THEN <<>> ELSE file.pages

\* the pages of the file that extract_pdf_pages_textfirst sends to OCR
OcrPages(file) ==
    {i \in DOMAIN PagesOf(file) : ~PageHasText(PagesOf(file)[i])}

\* the pages of the file that get a Chunk row
SegmentPages(file) ==
    {i \in DOMAIN PagesOf(file) : HasSegments(PagesOf(file)[i])}

\* len(re.findall(r"\w+|\S", s)) of an embedded text: its runs of letters
\* and digits
RunTokens(t) ==
    Cardinality({i \in DOMAIN t :
                    t[i] \notin Blanks /\ (i = 1 \/ t[i - 1] \in Blanks)})

\* tokens = _rough_tokens(ch_text) of the one chunk of a short page: the
\* runs of the embedded text, or the pieces the OCR joined with blanks
SegmentTokens(pg) ==
    IF PageHasText(pg) THEN RunTokens(pg.text) ELSE Len(PageYield(pg).text)

RECURSIVE SegmentRows(_, _)
\* the Chunk rows of the pages from page i on
SegmentRows(pages, i) ==
    IF i > Len(pages) THEN <<>>
    ELSE (IF HasSegments(pages[i])
          THEN <<[page_no |-> i, ocr_conf |-> StoredConf(pages[i]),
                  tokens |-> SegmentTokens(pages[i])]>>
          ELSE <<>>) \o SegmentRows(pages, i + 1)

\* a faulty variant of the test: the path is taken to exist
SourceMissingIgnored(file) == FALSE

\* "if not path.exists()"
SourceMissing(file) == file = <<>>

\* create_document: a row with a title only
CreateDocument ==
    /\ g_doc = <<>>
    /\ g_doc' = [source_path |-> FALSE, mime_type |-> "", pages |-> <<>>,
                 status |-> "ready"]
    /\ UNCHANGED <<g_file, g_runs, g_result, g_trace, g_segments>>
    /\ UNCHANGED notIngest

\* upload_document up to its call of process_document: the file is saved
\* and the row committed
UploadDocument(file) ==
    /\ g_doc = <<>>
    /\ g_file' = file
    /\ g_doc' = [source_path |-> TRUE, mime_type |-> file.mime_type,
                 pages |-> <<>>, status |-> "ready"]
    /\ UNCHANGED <<g_runs, g_result, g_trace, g_segments>>
    /\ UNCHANGED notIngest

\* the file is removed from the storage directory by something else than
\* the application
RemoveFile ==
    /\ g_file # <<>>
    /\ g_file' = <<>>
    /\ UNCHANGED <<g_doc, g_runs, g_result, g_trace, g_segments>>
    /\ UNCHANGED notIngest

\* the PDF branch and the return after index_embeddings
IngestPdf ==
    /\ g_trace' = [opened |-> g_trace.opened + 1,
                   ocr |-> g_trace.ocr + Cardinality(OcrPages(g_file)),
                   segments |-> g_trace.segments
                                   + Cardinality(SegmentPages(g_file)),
                   indexed |-> g_trace.indexed + 1]
    /\ g_segments' = g_segments \o SegmentRows(PagesOf(g_file), 1)
    /\ g_doc' = [g_doc EXCEPT !.pages = <<Len(PagesOf(g_file))>>,
                              !.status = "ready"]
    /\ g_result' = "pages"

\* the Chunk row of an image: "ocr_conf": float(conf or 0.0)
ImageRows(best) ==
    IF best.text = <<>> THEN <<>>
    ELSE <<[page_no |-> 1, ocr_conf |-> best.conf, tokens |-> Len(best.text)]>>

\* the image branch and the return after index_embeddings, or the return
\* when cv2.imread gives None
IngestImage ==
    IF PagesOf(g_file) = <<>>
    THEN /\ g_trace' = [g_trace EXCEPT !.opened = @ + 1]
         /\ g_result' = "error: failed to read image"
         /\ UNCHANGED <<g_doc, g_segments>>
    ELSE /\ g_trace' = [opened |-> g_trace.opened + 1,
                        ocr |-> g_trace.ocr + 1,
                        segments |-> g_trace.segments
                           + (IF OcrBest(g_file.pages[1].image).text # <<>>
                              THEN 1 ELSE 0),
                        indexed |-> g_trace.indexed + 1]
         /\ g_segments' = g_segments \o ImageRows(OcrBest(g_file.pages[1].image))
         /\ g_doc' = [g_doc EXCEPT !.pages = <<1>>, !.status = "ready"]
         /\ g_result' = "pages"

\* process_document(document_id)
ProcessDocument ==
    /\ g_runs < MaxRuns
    /\ g_runs' = g_runs + 1
    /\ IF g_doc = <<>> \/ ~g_doc.source_path
       THEN /\ g_result' = "error: document not found or no source_path"
            /\ UNCHANGED <<g_doc, g_trace, g_segments>>
       ELSE IF SourceMissing(g_file)
       THEN /\ g_result' = "error: missing file"
            /\ UNCHANGED <<g_doc, g_trace, g_segments>>
       ELSE IF g_doc.mime_type = "application/pdf" THEN IngestPdf
       ELSE IF g_doc.mime_type = "image/png" THEN IngestImage
       ELSE /\ g_result' = "skipped"
            /\ UNCHANGED <<g_doc, g_trace, g_segments>>
    /\ UNCHANGED g_file
    /\ UNCHANGED notIngest

InitIngest ==
    /\ EmptyStore
    /\ NoSearch
    /\ NoRace
    /\ cfg_batch = 1
    /\ NoChunking
    /\ NoOcr
    /\ NoExtraction
    /\ NoRetrieval
    /\ NoAnswering
    /\ g_doc = <<>> /\ g_file = <<>> /\ g_runs = 0 /\ g_result = "none"
    /\ g_trace = [opened |-> 0, ocr |-> 0, segments |-> 0, indexed |-> 0]
    /\ g_segments = <<>>

NextIngest ==
    \/ CreateDocument
    \/ \E file \in SampleFiles : UploadDocument(file)
    \/ RemoveFile
    \/ ProcessDocument

SpecIngest == InitIngest /\ [][NextIngest]_vars

----------------------------------------------------------------------------
(***************************************************************************)
(* jobs.py: two requests inside index_embeddings at the same time.  Each   *)
(* request has its own session: a query sees the rows committed before it, *)
(* and the rows of a batch become visible at its commit.                   *)
(***************************************************************************)
MaxRaceChunks == 2

\* the upload request i has committed its Document and n Chunk rows and
\* enters index_embeddings(document_id = d.id, batch_size = config)
RaceUpload(i, n) ==
    /\ racers[i].pc = "idle"
    /\ Cardinality(documents) < MaxDocs
    /\ Cardinality(chunks) + n <= MaxRaceChunks
    /\ LET d == IF documents = {} THEN 1 ELSE 1 + CHOOSE m \in documents :
                                               \A x \in documents : x <= m
           base == NextId(chunks)
       IN  /\ documents' = documents \cup {d}
           /\ chunks' = chunks \cup
                  {[id |-> base + j - 1, document_id |-> d] : j \in 1..n}
           /\ racers' = [racers EXCEPT ![i] =
                  [IdleRacer EXCEPT !.pc = "fetch", !.scope = d,
                                    !.batch_size = cfg_batch]]
    /\ UNCHANGED embeddings
    /\ UNCHANGED notRace

\* request i is POST /embeddings/reindex
RaceReindex(i, scope, bs) ==
    /\ racers[i].pc = "idle"
    /\ racers' = [racers EXCEPT ![i] =
           [IdleRacer EXCEPT !.pc = "fetch", !.scope = scope, !.batch_size = bs]]
    /\ UNCHANGED <<documents, chunks, embeddings>>
    /\ UNCHANGED notRace

\* request i reads its next page; an empty page ends its call
RaceFetch(i) ==
    /\ racers[i].pc = "fetch"
    /\ LET r == racers[i]
           batch == FetchPage(r.scope, r.batch_size, r.offset)
       IN  racers' = [racers EXCEPT ![i] =
               IF batch = <<>> THEN IdleRacer
               ELSE [r EXCEPT !.pc = "embed", !.batch = batch]]
    /\ UNCHANGED <<documents, chunks, embeddings>>
    /\ UNCHANGED notRace

\* a faulty variant of the commit: a segment that got a vector since the
\* page was read gets no second one
RaceEmbedOkOnce(i) ==
    /\ racers[i].pc = "embed"
    /\ embeddings' = embeddings \cup
          NewRows(SelectSeq(racers[i].batch, LAMBDA c : c \notin EmbeddedIds))
    /\ racers' = [racers EXCEPT ![i] =
           [@ EXCEPT !.pc = "fetch", !.batch = <<>>,
                     !.offset = @ + racers[i].batch_size]]
    /\ UNCHANGED <<documents, chunks>>
    /\ UNCHANGED notRace

\* request i saves and commits the rows of its page
RaceEmbedOk(i) ==
    /\ racers[i].pc = "embed"
    /\ embeddings' = embeddings \cup NewRows(racers[i].batch)
    /\ racers' = [racers EXCEPT ![i] =
           [@ EXCEPT !.pc = "fetch", !.batch = <<>>,
                     !.offset = @ + racers[i].batch_size]]
    /\ UNCHANGED <<documents, chunks>>
    /\ UNCHANGED notRace

\* embed_texts raises in request i
RaceEmbedFail(i) ==
    /\ racers[i].pc = "embed"
    /\ racers' = [racers EXCEPT ![i] = IdleRacer]
    /\ UNCHANGED <<documents, chunks, embeddings>>
    /\ UNCHANGED notRace

InitRace ==
    /\ EmptyStore
    /\ NoSearch
    /\ NoIngestion
    /\ NoAnswering
    /\ cfg_batch \in 1..MaxBatch
    /\ NoChunking
    /\ NoOcr
    /\ NoExtraction
    /\ NoRetrieval
    /\ racers = [i \in 1..2 |-> IdleRacer]

NextRace ==
    \/ \E i \in 1..2, n \in 1..MaxRaceChunks : RaceUpload(i, n)
    \/ \E i \in 1..2, scope \in {NoScope} \cup documents, bs \in 1..MaxBatch :
          RaceReindex(i, scope, bs)
    \/ \E i \in 1..2 : RaceFetch(i)
    \/ \E i \in 1..2 : RaceEmbedOk(i)
    \/ \E i \in 1..2 : RaceEmbedFail(i)

SpecRace == InitRace /\ [][NextRace]_vars

----------------------------------------------------------------------------
(***************************************************************************)
(* routes.py: upload_document and delete_document, with the indexer of     *)
(* jobs.py, one request after the other.  The primary keys come from       *)
(* sequences, so the id of a deleted row is not given out again.           *)
(***************************************************************************)
MaxUploads == 2

\* the numbers of Chunk rows process_document makes of the uploaded files
UploadSizes == 0..2

\* POST /documents/upload: the Document row, then process_document: n Chunk
\* rows committed, then index_embeddings(document_id = d.id, batch_size = config)
StoreUpload(n) ==
    /\ run.pc = "idle"
    /\ serial.documents < MaxUploads
    /\ LET d == serial.documents + 1
           ids == {serial.chunks + i : i \in 1..n}
       IN  /\ documents' = documents \cup {d}
           /\ chunks' = chunks \cup {[id |-> c, document_id |-> d] : c \in ids}
           /\ serial' = [documents |-> d, chunks |-> serial.chunks + n]
           /\ prev' = IF n > 0 THEN [prev EXCEPT !.valid = FALSE] ELSE prev
           /\ run' = [IdleRun EXCEPT !.pc = "fetch", !.scope = d,
                          !.batch_size = cfg_batch,
                          !.start_emb = embeddings,
                          !.start_missing = ids,
                          !.repeat = (n = 0 /\ prev.valid /\ prev.scope = d)]
    /\ UNCHANGED <<embeddings, cfg_batch>>
    /\ UNCHANGED <<cvars, ovars, xvars, hvars, avars, gvars, rvars, qvars>>

\* a faulty variant of the request: the DELETE on embeddings is left out
DeleteDocumentKeepsVectors(doc_id) ==
    /\ run.pc = "idle"
    /\ IF doc_id \notin documents
       THEN UNCHANGED <<documents, chunks>>
       ELSE /\ chunks' = {c \in chunks : c.document_id # doc_id}
            /\ documents' = documents \ {doc_id}
    /\ UNCHANGED <<embeddings, cfg_batch, run, prev>>
    /\ UNCHANGED notIndex

\* DELETE /documents/<doc_id>: 404 when there is no such document, else the
\* four DELETE statements and the commit
DeleteDocument(doc_id) ==
    /\ run.pc = "idle"
    /\ IF doc_id \notin documents
       THEN UNCHANGED <<documents, chunks, embeddings>>
       ELSE /\ embeddings' =
                  {e \in embeddings :
                      ~ \E c \in chunks : /\ e.chunk_id = c.id
                                          /\ c.document_id = doc_id}
            /\ chunks' = {c \in chunks : c.document_id # doc_id}
            /\ documents' = documents \ {doc_id}
    /\ UNCHANGED <<cfg_batch, run, prev>>
    /\ UNCHANGED notIndex

InitStore == InitIndex

NextStore ==
    \/ \E n \in UploadSizes : StoreUpload(n)
    \/ \E scope \in {NoScope} \cup documents, bs \in 1..MaxBatch : Reindex(scope, bs)
    \/ FetchBatch
    \/ EmbedOk
    \/ EmbedFail
    \/ Finish
    \/ \E doc_id \in 1..MaxUploads : DeleteDocument(doc_id)

SpecStore == InitStore /\ [][NextStore]_vars

----------------------------------------------------------------------------
(***************************************************************************)
(* Embedding indexer: properties.                                          *)
(***************************************************************************)
NewOfRun == embeddings \ run.start_emb

DoneIds == UNION {Range(run.done[i]) : i \in DOMAIN run.done}

\* C1: when index_embeddings runs alone and no embedding call fails, on
\* return every Segment of the scope has at least one EmbeddingVector.
C1_AllEmbeddedOnReturn ==
    run.pc = "returned" =>
        \A c \in InScope(run.scope) : \E e \in embeddings : e.chunk_id = c.id

\* C2: a run that directly follows a returned run over the same scope, with
\* no Segment created in between and no failure, creates no vector and
\* returns chunks_indexed = 0 and vectors_created = 0.
C2_SecondRunCreatesNothing ==
    (run.pc = "returned" /\ run.repeat) =>
        /\ run.total_chunks = 0
        /\ run.total_vectors = 0
        /\ NewOfRun = {}

\* C3: if every Segment of the scope already has an embedding, the run calls
\* the embedding model zero times, inserts no row, commits nothing, returns
\* zero counts and leaves the set of embeddings unchanged.
C3_FullyIndexedDoesNothing ==
    (run.pc # "idle" /\ run.start_missing = {}) =>
        /\ run.pc \in {"fetch", "returned"}
        /\ run.embed_calls = 0
        /\ run.commits = 0
        /\ run.total_chunks = 0
        /\ run.total_vectors = 0
        /\ embeddings = run.start_emb

C3_Witness ==
    /\ run.pc = "returned"
    /\ run.start_missing = {}
    /\ InScope(run.scope) # {}

\* C4: when the embedding call fails on batch n, the vectors of batches
\* 1..n-1 are persisted, one per segment of those batches, no vector of batch
\* n is persisted, and the call ends with the failure instead of counts.
C4_FailureKeepsEarlierBatches ==
    run.pc = "failed" =>
        /\ run.start_emb \subseteq embeddings
        /\ {e.chunk_id : e \in NewOfRun} = DoneIds
        /\ Cardinality(NewOfRun) = Cardinality(DoneIds)
        /\ run.total_vectors = Cardinality(DoneIds)
        /\ run.commits = Len(run.done)
        /\ run.embed_calls = Len(run.done) + 1
        /\ run.batch # <<>>
        /\ \A i \in DOMAIN run.batch :
               ~ \E e \in embeddings : e.chunk_id = run.batch[i]

C4_Witness ==
    /\ run.pc = "failed"
    /\ Len(run.done) >= 1
    /\ run.start_emb # {}

----------------------------------------------------------------------------
(***************************************************************************)
(* Chunker: properties.                                                    *)
(***************************************************************************)
ChunkTokens(i) == RoughTokens(chunked[i].text)

\* C7: every chunk of a page other than the last one has a token estimate of
\* at least target_min, also when the first paragraph alone exceeds target_max.
C7_NonFinalChunksReachMin ==
    cpc = "done" =>
        \A i \in 1..(Len(chunked) - 1) : ChunkTokens(i) >= target_min

\* C8: when a page gives more than one chunk (and overlap > 0), each chunk
\* after the first begins with a non-empty run of words, the trailing
\* min(overlap, word count) words of the chunk before it.
C8_ChunksShareOverlap ==
    (cpc = "done" /\ Len(chunked) > 1 /\ overlap > 0) =>
        \A i \in 2..Len(chunked) :
            LET before == chunked[i - 1].text
                n == Min(overlap, Len(before))
            IN  /\ n > 0
                /\ Len(chunked[i].text) >= n
                /\ SubSeq(chunked[i].text, 1, n) = LastWords(before, n)

\* C9: every chunk other than the final one has a token estimate within
\* [target_min, target_max], and the final chunk does not exceed target_max.
C9_ChunksWithinWindow ==
    cpc = "done" =>
        /\ \A i \in 1..(Len(chunked) - 1) :
               ChunkTokens(i) >= target_min /\ ChunkTokens(i) <= target_max
        /\ Len(chunked) > 0 => ChunkTokens(Len(chunked)) <= target_max

----------------------------------------------------------------------------
(***************************************************************************)
(* OCR variant selector: properties.                                       *)
(***************************************************************************)
PairAt(i) == PairResult(EngineAnswers[o_answers[i]])

NonEmptyPairs == {i \in DOMAIN o_answers : PairAt(i).text # <<>>}

\* the first pair, in iteration order, of the highest average confidence
\* among the pairs with text
FirstBestPair ==
    CHOOSE i \in NonEmptyPairs :
        \A j \in NonEmptyPairs :
            /\ ~ FracGt(PairAt(j).conf, PairAt(i).conf)
            /\ FracEq(PairAt(j).conf, PairAt(i).conf) => i <= j

\* C6: _ocr_best returns the text and average confidence of the first pair
\* of highest average confidence among the pairs whose text is not empty, and
\* empty text with confidence 0 only when every pair's text is empty.
C6_BestNonEmptyPair ==
    opc = "done" =>
        IF NonEmptyPairs = {}
        THEN o_best.text = <<>> /\ FracEq(o_best.conf, <<0, 1>>)
        ELSE /\ o_best.text = PairAt(FirstBestPair).text
             /\ FracEq(o_best.conf, PairAt(FirstBestPair).conf)

----------------------------------------------------------------------------
(***************************************************************************)
(* Text extractor: properties.                                             *)
(***************************************************************************)
\* the text has a letter (str.isalpha), of whatever script
HasAlphabetic(t) == \E i \in DOMAIN t : t[i] \in AsciiLetters \cup OtherLetters

OcrInvokedFor(i) == i \in renders \cup preprocessed \cup ocr_best_calls

\* C5: a page whose embedded text has at least one alphabetic character is
\* yielded as that text with confidence None and without any OCR call (no
\* render, no preprocessing, no _ocr_best); OCR runs only for other pages.
C5_TextPagesSkipOcr ==
    \A i \in DOMAIN yielded :
        /\ HasAlphabetic(pdf[i].text) =>
               /\ yielded[i] = [page_no |-> i, text |-> pdf[i].text, ocr_conf |-> <<>>]
               /\ ~ OcrInvokedFor(i)
        /\ OcrInvokedFor(i) => ~ HasAlphabetic(pdf[i].text)

----------------------------------------------------------------------------
(***************************************************************************)
(* Hybrid retriever: properties.                                           *)
(***************************************************************************)
\* the confidence stored with the segment a candidate stands for
StoredConfOf(it) == h_rows[it.chunk_id].ocr_conf

SameMult(a, b) == a.mult = b.mult

\* C11: between two candidates of a call with the same multiplier, the one
\* with the higher normalized semantic score has the strictly higher fused
\* score when their lexical scores are equal, and the one with the higher
\* normalized lexical score when their semantic scores are equal.
C11_FusedScoreMonotone ==
    hpc = "done" =>
        \A i, j \in DOMAIN h_items :
            LET a == h_items[i]
                b == h_items[j]
            IN  SameMult(a, b) =>
                  /\ (a.fscore = b.fscore /\ a.vscore > b.vscore)
                        => CmpScore(a.score, b.score, h_scale) > 0
                  /\ (a.vscore = b.vscore /\ a.fscore > b.fscore)
                        => CmpScore(a.score, b.score, h_scale) > 0

\* a call scored two candidates that differ in the semantic score only and
\* two that differ in the lexical score only
C11_Witness ==
    /\ hpc = "done"
    /\ \E i, j \in DOMAIN h_items :
          /\ SameMult(h_items[i], h_items[j])
          /\ h_items[i].fscore = h_items[j].fscore
          /\ h_items[i].vscore > h_items[j].vscore
    /\ \E i, j \in DOMAIN h_items :
          /\ SameMult(h_items[i], h_items[j])
          /\ h_items[i].vscore = h_items[j].vscore
          /\ h_items[i].fscore > h_items[j].fscore

\* the request's scope holds exactly the chunk c, which has an embedding and
\* matches the query lexically, and the request asks for at least one item
OnlyChunk(c) ==
    /\ hpc = "done"
    /\ h_req.limit >= 1
    /\ Scoped(h_rows, h_req.doc_id) = {c}
    /\ h_rows[c].n_emb >= 1
    /\ h_rows[c].rank > 0

\* the sign of the fused score of an item of the last call
ScoreSign(it) == SurdSign(it.score.v, it.score.f, h_scale.v, h_scale.f)

\* C12 as stated: when the scope holds exactly one indexed chunk and the
\* query matches it lexically and semantically, that chunk is returned first
\* and its fused score is strictly positive.
C12_SingleChunkPositive ==
    \A c \in DOMAIN h_rows :
        OnlyChunk(c) =>
            /\ Len(h_out) >= 1
            /\ h_out[1].chunk_id = c
            /\ ScoreSign(h_out[1]) > 0

\* C12, amended: when the scope holds exactly one indexed chunk, with one or
\* two embedding rows, and the query matches it lexically and semantically,
\* a request for at least one item returns exactly that chunk, and its fused
\* score is 0: both normalized scores of a lone candidate are 0.
C12_SingleChunkZero ==
    \A c \in DOMAIN h_rows :
        OnlyChunk(c) =>
            /\ Len(h_out) = 1
            /\ h_out[1].chunk_id = c
            /\ h_out[1].vscore = 0
            /\ h_out[1].fscore = 0
            /\ ScoreSign(h_out[1]) = 0

\* a request scoped to a document whose only chunk matches both ways, in a
\* store that holds other documents' chunks too
C12_Witness ==
    \E c \in DOMAIN h_rows :
        /\ OnlyChunk(c)
        /\ Len(h_rows) > 1
        /\ Len(h_out) = 1

\* C19: for a non-negative limit the call returns at most limit items, in
\* order of non-increasing fused score, and no chunk id twice, also when a
\* chunk has several embedding rows.
C19_LimitedSortedUnique ==
    (hpc = "done" /\ h_req.limit >= 0) =>
        /\ Len(h_out) <= h_req.limit
        /\ \A i, j \in DOMAIN h_out :
              i < j => CmpScore(h_out[i].score, h_out[j].score, h_scale) >= 0
        /\ \A i, j \in DOMAIN h_out :
              h_out[i].chunk_id = h_out[j].chunk_id => i = j

\* a call cut its candidates down to the limit and returned two items of
\* different scores, one of them a chunk that has two embedding rows
C19_Witness ==
    /\ hpc = "done"
    /\ h_req.limit >= 1
    /\ Len(h_out) = h_req.limit
    /\ Len(h_items) > Len(h_out)
    /\ \E i \in DOMAIN h_out : h_rows[h_out[i].chunk_id].n_emb > 1
    /\ \E i, j \in DOMAIN h_out :
          i < j /\ CmpScore(h_out[i].score, h_out[j].score, h_scale) > 0

----------------------------------------------------------------------------
(***************************************************************************)
(* Answer endpoint: properties.                                            *)
(***************************************************************************)
\* the request was accepted and its retrieval returned no item
EmptyRetrieval == apc # "idle" /\ a_req.q # "" /\ a_req.top_items = <<>>

\* C13: when hybrid retrieval returns no item, answer_api returns the fixed
\* insufficient-context answer with no citation, no used chunk and
\* llm_ms = 0, and makes no call on the LLM endpoint.
C13_EmptyRetrievalShortCircuits ==
    EmptyRetrieval =>
        /\ apc = "done"
        /\ a_resp.status = 200
        /\ a_resp.answer = <<"Insufficient context">>
        /\ a_resp.citations = <<>>
        /\ a_resp.used_chunks = <<>>
        /\ a_resp.llm_ms = 0
        /\ a_llm.invocation = 0
        /\ a_posts = <<>>
        /\ a_replies = <<>>

\* a request with a question whose retrieval found nothing has returned
C13_Witness == EmptyRetrieval /\ apc = "done" /\ a_resp.status = 200

\* the reply holds a [CIT-n] marker
HasMarker(text) == Len(text) > 0

\* C14: a request invokes ollama_chat at most twice; the second invocation
\* happens exactly when the first reply holds no [CIT-n] marker; a second
\* reply ends the request, marker or not, and is the answer of the response.
C14_AtMostOneRegeneration ==
    /\ a_llm.invocation <= 2
    /\ Len(a_posts) <= 2
    /\ Len(a_replies) <= 2
    /\ a_llm.invocation = 2 <=> (Len(a_replies) >= 1 /\ ~HasMarker(a_replies[1]))
    /\ Len(a_replies) = 2 =>
          /\ apc = "done"
          /\ a_resp.status = 200
          /\ a_resp.answer = a_replies[2]
          /\ a_resp.reply_no = 2

\* the first reply and the second reply both came without a marker
C14_Witness ==
    /\ apc = "done"
    /\ Len(a_replies) = 2
    /\ ~HasMarker(a_replies[1])
    /\ ~HasMarker(a_replies[2])
    /\ a_resp.reply_no = 2

\* the position of a retrieved chunk in top_items
PosOf(c) == CHOOSE i \in DOMAIN a_req.top_items : a_req.top_items[i] = c

RECURSIVE SumTokens(_)
\* the token estimates of a list of chunks, added up
SumTokens(ids) ==
    IF ids = <<>> THEN 0
    ELSE SampleChunks[Head(ids)].trimmed_tokens + SumTokens(Tail(ids))

\* the admitted chunks that were retrieved ahead of position i
AdmittedBefore(i) ==
    SelectSeq(a_pack.used_chunk_ids, LAMBDA c : PosOf(c) < i)

SamePage(c1, c2) ==
    /\ SampleChunks[c1].document_id = SampleChunks[c2].document_id
    /\ SampleChunks[c1].page_no = SampleChunks[c2].page_no

\* the item at position i is up for admission, its page not seen and its
\* text not blank, and would push the sum over the budget
Overflows(i) ==
    LET c == a_req.top_items[i]
    IN  /\ c \in a_req.by_id
        /\ SampleChunks[c].trimmed_tokens > 0
        /\ \A j \in 1..(i - 1) : ~SamePage(a_req.top_items[j], c)
        /\ SumTokens(AdmittedBefore(i)) + SampleChunks[c].trimmed_tokens
              > a_req.max_ctx_tokens

NoneAdmittedAfterOverflow ==
    \A j \in DOMAIN a_pack.used_chunk_ids :
        \A i \in 1..(PosOf(a_pack.used_chunk_ids[j]) - 1) : ~Overflows(i)

\* C15 as stated: the token estimates of the admitted blocks never add up
\* to more than max_context_tokens, and once a candidate would push the sum
\* over the budget no later candidate is admitted.
C15_BudgetNeverExceeded ==
    apc \in {"llm", "done"} =>
        /\ SumTokens(a_pack.used_chunk_ids) <= a_req.max_ctx_tokens
        /\ NoneAdmittedAfterOverflow

\* C15, amended: for a budget of 0 or more the token estimates of the
\* admitted blocks never add up to more than max_context_tokens, for a
\* negative budget no block is admitted, and once a candidate would push the
\* sum over the budget no later candidate is admitted.
C15_BudgetKept ==
    apc \in {"llm", "done"} =>
        /\ a_req.max_ctx_tokens >= 0 =>
              SumTokens(a_pack.used_chunk_ids) <= a_req.max_ctx_tokens
        /\ a_req.max_ctx_tokens < 0 => a_pack.used_chunk_ids = <<>>
        /\ a_pack.tokens_acc = SumTokens(a_pack.used_chunk_ids)
        /\ NoneAdmittedAfterOverflow

\* a candidate was over the budget, and a candidate behind it that would
\* have fitted was left out
C15_Witness ==
    /\ apc = "llm"
    /\ a_req.max_ctx_tokens > 0
    /\ \E i, j \in DOMAIN a_req.top_items :
          /\ i < j
          /\ Overflows(i)
          /\ a_req.top_items[j] \in a_req.by_id
          /\ \A l \in 1..(j - 1) : ~SamePage(a_req.top_items[l], a_req.top_items[j])
          /\ SampleChunks[a_req.top_items[j]].trimmed_tokens > 0
          /\ SumTokens(a_pack.used_chunk_ids)
                + SampleChunks[a_req.top_items[j]].trimmed_tokens
                <= a_req.max_ctx_tokens

\* C16: the first ollama_chat invocation of a request makes at most 3 POSTs,
\* every one before its reply a failure, and when the third fails too the
\* request ends with llm_unreachable, status 502, without answer and
\* without citations.
C16_ThreeAttemptsThenUnreachable ==
    a_posts # <<>> =>
        /\ a_posts[1] <= 3
        /\ (apc = "llm" /\ a_llm.invocation = 1) =>
              a_replies = <<>> /\ a_posts[1] = a_llm.attempt /\ a_posts[1] < 3
        /\ (a_replies = <<>> /\ a_posts[1] = 3) =>
              /\ apc = "done"
              /\ a_resp.status = 502
              /\ "error" \in a_resp.keys
              /\ "answer" \notin a_resp.keys
              /\ "citations" \notin a_resp.keys
              /\ a_resp.answer = <<>>
              /\ a_resp.citations = <<>>
        /\ (apc = "done" /\ a_replies = <<>>) => a_posts[1] = 3

\* three POSTs of the first invocation failed and the request ended
C16_Witness ==
    /\ apc = "done"
    /\ a_posts = <<3>>
    /\ a_replies = <<>>
    /\ a_resp.status = 502

\* C17: every citation of the response has an index i between 1 and the
\* number of admitted blocks, carries document id, page and title of the
\* i-th admitted block, which the prompt shows under [CIT-i] and whose chunk
\* id is used_chunks[i], no index comes twice, and a marker number outside
\* that range is in no citation.
C17_CitationsMapToBlocks ==
    apc = "done" =>
        /\ \A n \in DOMAIN a_resp.citations :
              LET ct == a_resp.citations[n]
                  i == ct.cit
              IN  /\ 1 <= i /\ i <= Len(a_pack.used_chunk_ids)
                  /\ i \in Range(a_resp.answer)
                  /\ a_prompt[i].cit = i
                  /\ a_prompt[i].text_of = a_resp.used_chunks[i]
                  /\ ct.title = a_prompt[i].title
                  /\ ct.page_no = a_prompt[i].page_no
                  /\ ct.document_id = SampleChunks[a_resp.used_chunks[i]].document_id
                  /\ ct.page_no = SampleChunks[a_resp.used_chunks[i]].page_no
                  /\ ct.title = SampleChunks[a_resp.used_chunks[i]].title
        /\ \A n, m \in DOMAIN a_resp.citations :
              a_resp.citations[n].cit = a_resp.citations[m].cit => n = m
        /\ (a_resp.status = 200 /\ a_replies # <<>>) =>
              a_resp.used_chunks = a_pack.used_chunk_ids

\* the reply cites block 2 and a block 3 that does not exist: the response
\* has the one citation of block 2
C17_Witness ==
    /\ apc = "done"
    /\ a_resp.answer = <<3, 2>>
    /\ Len(a_resp.used_chunks) = 2
    /\ Len(a_resp.citations) = 1
    /\ a_resp.citations[1].cit = 2

\* C18: the admitted blocks hold at most one block per (document id, page
\* number), and the block of a page comes from the chunk of that page that
\* was retrieved first: no chunk retrieved behind another of its page is
\* admitted.
C18_OneBlockPerPage ==
    apc \in {"llm", "done"} =>
        /\ \A i, j \in DOMAIN a_pack.used_chunk_ids :
              SamePage(a_pack.used_chunk_ids[i], a_pack.used_chunk_ids[j])
                 => i = j
        /\ \A j \in DOMAIN a_pack.used_chunk_ids :
              \A i \in 1..(PosOf(a_pack.used_chunk_ids[j]) - 1) :
                 ~SamePage(a_req.top_items[i], a_pack.used_chunk_ids[j])

\* two chunks of one page were retrieved, the first was admitted and the
\* budget had room for the second
C18_Witness ==
    /\ apc = "llm"
    /\ \E i, j \in DOMAIN a_req.top_items :
          /\ i < j
          /\ SamePage(a_req.top_items[i], a_req.top_items[j])
          /\ a_req.top_items[i] \in Range(a_pack.used_chunk_ids)
          /\ a_req.top_items[j] \in a_req.by_id
          /\ a_pack.broke_at = 0

----------------------------------------------------------------------------
(***************************************************************************)
(* Synchronous ingestion: properties.                                      *)
(***************************************************************************)
\* the document has a row with a source path and no file is at the path
FileGone == g_doc # <<>> /\ g_doc.source_path /\ g_file = <<>>

\* C20: a process_document call for a document whose source file does not
\* exist returns an error and leaves everything as it was: no file opened,
\* no OCR run, no Segment created, pages and status of the document
\* unchanged, no index_embeddings call.
C20_MissingFileFailsFast ==
    [][(g_runs' = g_runs + 1 /\ FileGone) =>
          /\ g_result' = "error: missing file"
          /\ g_trace'.opened = g_trace.opened
          /\ g_trace'.ocr = g_trace.ocr
          /\ g_trace'.segments = g_trace.segments
          /\ g_trace'.indexed = g_trace.indexed
          /\ g_doc'.pages = g_doc.pages
          /\ g_doc'.status = g_doc.status]_vars

\* a scanned PDF was ingested, its file went away, and a second call
\* returned the error
C20_Witness ==
    /\ FileGone
    /\ g_runs = 2
    /\ g_result = "error: missing file"
    /\ g_doc.pages # <<>>
    /\ g_trace.ocr > 0
    /\ g_trace.segments > 0

----------------------------------------------------------------------------
(***************************************************************************)
(* Embedding indexer: one vector per segment.                              *)
(***************************************************************************)
\* the Embedding rows of a segment
VectorsOf(cid) == {e \in embeddings : e.chunk_id = cid}

\* C22: whatever index_embeddings runs and uploads have happened one after
\* the other, with any scopes and batch sizes, every Segment has at most one
\* Embedding row.
C22_AtMostOneVectorSequential ==
    \A c \in chunks : Cardinality(VectorsOf(c.id)) <= 1

\* two documents were uploaded and indexed, and a run over all documents
\* has returned with every segment embedded
C22_Witness ==
    /\ run.pc = "returned"
    /\ run.scope = NoScope
    /\ Cardinality(documents) = 2
    /\ Cardinality(chunks) >= 3
    /\ \A c \in chunks : Cardinality(VectorsOf(c.id)) = 1

\* request i commits a page in this step
Commits(i) == racers[i].pc = "embed" /\ racers'[i].pc = "fetch"

\* C21: two index_embeddings calls that overlap in time can give one Segment
\* two Embedding rows: a commit adds one row for every segment of its page,
\* also for a segment that got a row since the page was read.
C21_ConcurrentRunsDuplicate ==
    [][\A i \in 1..2 :
          Commits(i) =>
             \A j \in DOMAIN racers[i].batch :
                Cardinality({e \in embeddings' : e.chunk_id = racers[i].batch[j]})
                   = Cardinality(VectorsOf(racers[i].batch[j])) + 1]_vars

\* both requests read the same un-embedded segment before either commit,
\* and both have committed: the segment has two Embedding rows
C21_Witness ==
    \E c \in chunks : Cardinality(VectorsOf(c.id)) = 2

\* the first call has ingested a one-page PDF whose embedded text has a
\* letter and is far shorter than the window
BornDigitalIngested ==
    /\ g_runs = 1
    /\ g_result = "pages"
    /\ g_file # <<>>
    /\ g_file.mime_type = "application/pdf"
    /\ Len(g_file.pages) = 1
    /\ HasAlphabetic(g_file.pages[1].text)

\* C23: ingesting a single-page PDF whose embedded alphabetic text is
\* shorter than the max window creates exactly one Segment, whose recorded
\* OCR confidence is none and whose token estimate is above 0.
C23_BornDigitalOneSegment ==
    BornDigitalIngested =>
        /\ Len(g_segments) = 1
        /\ g_segments[1].ocr_conf = <<>>
        /\ g_segments[1].tokens > 0

(***************************************************************************)
(* Hybrid retrieval: the confidence multiplier.                            *)
(***************************************************************************)
\* the candidates a and b of a call have the same normalized scores, and
\* the stored OCR confidence of a is below that of b
SameScoresLowerConf(a, b) ==
    /\ a.vscore = b.vscore
    /\ a.fscore = b.fscore
    /\ a.ocr_conf[1] * b.ocr_conf[2] < b.ocr_conf[1] * a.ocr_conf[2]

\* the multiplier of every candidate of a call is at least 0.85 (17/20)
MultAtLeastFloor ==
    \A i \in DOMAIN h_items : 20 * h_items[i].mult[1] >= 17 * h_items[i].mult[2]

\* C24: between two candidates with the same normalized semantic and the
\* same normalized lexical score, the one with the lower OCR confidence
\* never has the higher fused score, whatever the sign of the weighted sum,
\* and the multiplier is never below 0.85.
C24_LowerConfidenceNeverHigher ==
    hpc = "done" =>
        /\ MultAtLeastFloor
        /\ \A i, j \in DOMAIN h_items :
              SameScoresLowerConf(h_items[i], h_items[j])
                  => CmpScore(h_items[i].score, h_items[j].score, h_scale) <= 0

\* the first reply came without a marker and no second reply has come
RegenerationPending == Len(a_replies) = 1 /\ ~HasMarker(a_replies[1])

\* C27: when the first reply holds no citation marker and the stricter call
\* fails on both of its attempts, the request ends with the llm_unreachable
\* error, status 502, and the response carries neither the first reply nor
\* any answer; the stricter call makes no third attempt.
C27_FailedRegenerationIsAnError ==
    RegenerationPending =>
        /\ Len(a_posts) = 2
        /\ a_posts[2] <= 2
        /\ apc = "done" <=> a_posts[2] = 2
        /\ apc = "done" =>
              /\ a_resp.status = 502
              /\ "error" \in a_resp.keys
              /\ "answer" \notin a_resp.keys
              /\ a_resp.reply_no = 0
              /\ a_resp.citations = <<>>
              /\ a_resp.used_chunks = <<>>

\* the first call answered without a marker at its third attempt, and the
\* two attempts of the stricter call failed
C27_Witness ==
    /\ RegenerationPending
    /\ apc = "done"
    /\ a_posts = <<3, 2>>
    /\ a_resp.status = 502

\* the request was accepted, its retrieval returned items, and the packing
\* loop admitted no block
NothingAdmitted ==
    /\ apc # "idle"
    /\ a_req.q # ""
    /\ a_req.top_items # <<>>
    /\ a_pack.used_chunk_ids = <<>>

\* C28: answer_api calls the LLM endpoint only when the packing loop admitted
\* at least one context block: with a retrieval that is not empty and no
\* block admitted, no generation call is made.
C28_LlmOnlyWithContext ==
    NothingAdmitted =>
        /\ a_llm.invocation = 0
        /\ a_posts = <<>>
        /\ a_replies = <<>>

(***************************************************************************)
(* Chunker: the chunks against the paragraphs of the page.                 *)
(***************************************************************************)
\* the paragraphs of the page that was chunked
PageParas == ParasFrom(page, 1, <<>>, <<>>)

\* the words chunk i takes over from the chunk before it
SeedLen(i) == IF i = 1 THEN 0 ELSE Min(overlap, Len(chunked[i - 1].text))

\* chunk i without its overlap seed
ChunkBody(i) == SubSeq(chunked[i].text, SeedLen(i) + 1, Len(chunked[i].text))

RECURSIVE BodiesFrom(_)
\* the chunks from chunk i on, seeds left out, one after the other
BodiesFrom(i) ==
    IF i > Len(chunked) THEN <<>> ELSE ChunkBody(i) \o BodiesFrom(i + 1)

RECURSIVE EndsOf(_, _, _)
\* the word positions at which the parts of a page end
EndsOf(lens, i, at) ==
    IF i > Len(lens) THEN {at}
    ELSE {at} \cup EndsOf(lens, i + 1, at + lens[i])

\* indices 0..n-1 in order; the chunks without their seeds are the paragraphs
\* of the page, each whole and in one chunk, in page order; what a chunk
\* repeats is the tail of the chunk before it, at its start
ChunksCoverParagraphs ==
    /\ \A i \in DOMAIN chunked : chunked[i].idx = i - 1
    /\ BodiesFrom(1) = Join(PageParas)
    /\ EndsOf([i \in DOMAIN chunked |-> Len(ChunkBody(i))], 1, 0)
          \subseteq EndsOf([j \in DOMAIN PageParas |-> Len(PageParas[j])], 1, 0)
    /\ \A i \in 2..Len(chunked) :
          SubSeq(chunked[i].text, 1, SeedLen(i))
              = LastWords(chunked[i - 1].text, SeedLen(i))

NoChunkEmpty == \A i \in DOMAIN chunked : chunked[i].text # <<>>

\* C29: the chunks of a page have the indices 0, 1, ..., n-1 in emission
\* order, every paragraph of the page is in exactly one chunk, in the page's
\* paragraph order, the only text in two chunks is the overlap seed at the
\* start of a chunk, and no chunk is empty.
C29_ChunksPartitionPage ==
    cpc = "done" => (ChunksCoverParagraphs /\ NoChunkEmpty)

(***************************************************************************)
(* Store: referential integrity under upload, indexing and deletion.       *)
(***************************************************************************)
\* every Chunk row has its Document row, every Embedding row its Chunk row
ReferentialIntegrity ==
    /\ \A c \in chunks : c.document_id \in documents
    /\ \A e \in embeddings : \E c \in chunks : c.id = e.chunk_id

\* the rows of a document d
ChunksOfDoc(d) == {c \in chunks : c.document_id = d}
VectorsOfDoc(d) ==
    {e \in embeddings : \E c \in ChunksOfDoc(d) : c.id = e.chunk_id}

\* a step that takes a document away takes all of its chunks and all of
\* their embeddings away, and no other row
DeleteEffect ==
    \A d \in documents \ documents' :
        /\ chunks' = chunks \ ChunksOfDoc(d)
        /\ embeddings' = embeddings \ VectorsOfDoc(d)
        /\ documents' = documents \ {d}

\* C25: after every sequence of upload, ingestion, indexing and
\* delete_document requests that do not overlap, every Segment references a
\* Document that exists and every EmbeddingVector a Segment that exists;
\* delete_document(d) removes all Segments of d and all their
\* EmbeddingVectors and leaves the rows of every other document unchanged.
C25_DeleteKeepsIntegrity == [][ReferentialIntegrity' /\ DeleteEffect]_vars

\* a document with an embedded segment was deleted while another document
\* with an embedded segment stayed
C25_Witness ==
    /\ \E d \in 1..serial.documents : d \notin documents
    /\ \E c \in 1..serial.chunks : \A x \in chunks : x.id # c
    /\ \E e \in embeddings :
          \E k \in 1..(e.id - 1) : \A x \in embeddings : x.id # k

(***************************************************************************)
(* Search endpoint and answer helper: the same result list.                *)
(***************************************************************************)
\* C26: for every query, limit, scope filter and store content,
\* _hybrid_retrieve_for_answer returns the same chunk ids in the same order
\* with the same scores and low_confidence flags as the result list of
\* search_hybrid.
C26_HelperMirrorsSearch ==
    hpc = "done" =>
        /\ s_resp.status = 200
        /\ Len(h_out) = Len(s_resp.results)
        /\ h_scale = s_resp.scale
        /\ \A i \in DOMAIN h_out :
              /\ h_out[i].chunk_id = s_resp.results[i].chunk_id
              /\ h_out[i].low_confidence = s_resp.results[i].low_confidence
              /\ CmpScore(h_out[i].score, s_resp.results[i].score, h_scale) = 0

\* both were called with a scope, and returned two items of different
\* scores, one of them of low confidence
C26_Witness ==
    /\ hpc = "done"
    /\ s_req.doc_id # NoScope
    /\ Len(s_resp.results) = 2
    /\ Len(h_out) = 2
    /\ CmpScore(h_out[1].score, h_out[2].score, h_scale) > 0
    /\ \E i \in DOMAIN h_out : h_out[i].low_confidence

====
